---- MODULE Spec2Model ----
(***************************************************************************)
(* Model of the intent-driven orchestration pipeline of chat_api_lab       *)
(* (Python/src): on_message_activity, _analyze_intent, _execute_agents,    *)
(* _execute_agent_for_intent, _synthesize_response and the intent parsing  *)
(* of IntentPlugin.                                                        *)
(*                                                                         *)
(* A text is a sequence of tokens (strings).  A user message is a sequence *)
(* of one-character tokens, so Len is its length in characters; a fixed    *)
(* literal of the program is a one-token text.                             *)
(***************************************************************************)
EXTENDS Integers, Sequences, FiniteSets, TLC

\* ------------------------------------------------------------------------
\* Bounds of the model
\* ------------------------------------------------------------------------
\* longest JSON array a classification reply carries
MaxItems == 3

\* longest array in a direct call of the parsing functions
MaxParseItems == 2

\* longest reply, in tokens, in a direct call of _extract_json
MaxReplyTokens == 4

\* most intents of one of two concurrent turns
MaxTurnIntents == 2

\* most M365 intents of a turn whose connector calls are followed step by step
MaxBranches == 2

\* ------------------------------------------------------------------------
\* Program constants
\* ------------------------------------------------------------------------
MAX_MESSAGE_LENGTH == 4000

IntentType == {"M365Email", "M365Calendar", "M365Files", "M365People", "GeneralKnowledge"}

GENERAL_KNOWLEDGE == "GeneralKnowledge"

\* ------------------------------------------------------------------------
\* JSON values, as json.loads produces them.  Every value is a record with
\* a kind k.  An object carries the four keys the code looks at; a key the
\* object does not have is Absent.
\* ------------------------------------------------------------------------
Absent == [k |-> "absent"]
JNull == [k |-> "null"]
JNum == [k |-> "num"]
JStr(t) == [k |-> "str", v |-> t]
JArr(items) == [k |-> "arr", items |-> items]
JObj(type, query, confidence, extra) ==
    [k |-> "obj", type |-> type, query |-> query, confidence |-> confidence, extra |-> extra]

\* a member of the IntentType enumeration (distinct from the JSON string)
Member(name) == [k |-> "enum", name |-> name]

\* IntentType(value): the member with that value, else ValueError
IntentTypeOf(value) ==
    IF value.k = "enum" THEN [ok |-> TRUE, val |-> value]
    ELSE IF value.k = "str" /\ Len(value.v) = 1 /\ value.v[1] \in IntentType
         THEN [ok |-> TRUE, val |-> Member(value.v[1])]
         ELSE [ok |-> FALSE, exc |-> "ValueError"]

\* Intent(type=..., query=..., confidence=...) with __post_init__: a str
\* type is converted (ValueError when unknown), any other value is kept
IntentInit(type, query, confidence) ==
    IF type.k \in {"str", "enum"}
    THEN LET t == IntentTypeOf(type)
         IN  IF t.ok
             THEN [ok |-> TRUE, val |-> [type |-> t.val, query |-> query, confidence |-> confidence]]
             ELSE t
    ELSE [ok |-> TRUE, val |-> [type |-> type, query |-> query, confidence |-> confidence]]

\* Intent(**item): item must be a mapping whose keys are parameters of
\* Intent and include type and query, else TypeError
IntentFromItem(item) ==
    IF item.k # "obj" THEN [ok |-> FALSE, exc |-> "TypeError"]
    ELSE IF item.extra # Absent \/ item.type = Absent \/ item.query = Absent
         THEN [ok |-> FALSE, exc |-> "TypeError"]
         ELSE IntentInit(item.type, item.query,
                         IF item.confidence = Absent THEN JNull ELSE item.confidence)

\* the single-element fallback
Fallback(query) == <<[type |-> Member(GENERAL_KNOWLEDGE), query |-> JStr(query), confidence |-> JNull]>>

\* ------------------------------------------------------------------------
\* Reply texts of the completion service.  fence: the markdown fence the
\* reply is wrapped in ("none", "json" for ```json, "plain" for ```).
\* ------------------------------------------------------------------------
JsonText(doc, fence) == [k |-> "json", doc |-> doc, fence |-> fence]
GarbageText(fence) == [k |-> "garbage", doc |-> JNull, fence |-> fence]
\* the literal "[]"
EmptyArrayText == JsonText(JArr(<<>>), "none")

\* json.loads on a text: a fenced text and a garbage text are not JSON
JsonLoads(text) ==
    IF text.k = "json" /\ text.fence = "none"
    THEN [ok |-> TRUE, val |-> text.doc]
    ELSE [ok |-> FALSE, exc |-> "JSONDecodeError"]

\* IntentPlugin._extract_json: the contents of the fenced block, stripped
_extract_json(response) == [response EXCEPT !.fence = "none"]

\* one iteration of the loop of parse_intent_response:
\* "intent" appends, "skip" is the caught KeyError/ValueError, "raise" is
\* an exception the inner except clause does not catch
ParseItem(item) ==
    IF item.k # "obj" THEN [r |-> "raise", exc |-> "TypeError"]
    ELSE IF item.type = Absent THEN [r |-> "skip", exc |-> "KeyError"]
    ELSE LET t == IntentTypeOf(item.type)
         IN  IF ~t.ok THEN [r |-> "skip", exc |-> "ValueError"]
             ELSE IF item.query = Absent THEN [r |-> "skip", exc |-> "KeyError"]
             ELSE [r |-> "intent",
                   val |-> IntentInit(t.val, item.query,
                                      IF item.confidence = Absent THEN JNull
                                      ELSE item.confidence).val]

RECURSIVE ParseItems(_)
ParseItems(items) ==
    IF items = <<>> THEN [ok |-> TRUE, val |-> <<>>]
    ELSE LET p == ParseItem(Head(items))
         IN  IF p.r = "raise" THEN [ok |-> FALSE, exc |-> p.exc]
             ELSE LET rest == ParseItems(Tail(items))
                  IN  IF ~rest.ok THEN rest
                      ELSE IF p.r = "skip" THEN rest
                      ELSE [ok |-> TRUE, val |-> <<p.val>> \o rest.val]

\* IntentPlugin.parse_intent_response(json_response, original_query):
\* [ok |-> TRUE, val |-> intents] or, when an exception escapes,
\* [ok |-> FALSE, exc |-> its class]
parse_intent_response(json_response, original_query) ==
    LET d == JsonLoads(json_response)
    IN  IF ~d.ok THEN [ok |-> TRUE, val |-> Fallback(original_query)]
        ELSE IF d.val.k # "arr" THEN [ok |-> TRUE, val |-> Fallback(original_query)]
        ELSE IF d.val.items = <<>> THEN [ok |-> TRUE, val |-> Fallback(original_query)]
        ELSE LET r == ParseItems(d.val.items)
             IN  IF ~r.ok THEN r
                 ELSE IF r.val = <<>> THEN [ok |-> TRUE, val |-> Fallback(original_query)]
                 ELSE r

\* [Intent(**item) for item in data] on a list
RECURSIVE IntentsFromItems(_)
IntentsFromItems(items) ==
    IF items = <<>> THEN [ok |-> TRUE, val |-> <<>>]
    ELSE LET i == IntentFromItem(Head(items))
         IN  IF ~i.ok THEN i
             ELSE LET rest == IntentsFromItems(Tail(items))
                  IN  IF ~rest.ok THEN rest
                      ELSE [ok |-> TRUE, val |-> <<i.val>> \o rest.val]

\* [Intent(**item) for item in data] on any decoded value: a number, null
\* or a boolean is not iterable; a string iterates over its characters and
\* an object over its keys, and Intent(**"c") is a TypeError
IntentsFromData(data) ==
    IF data.k = "arr" THEN IntentsFromItems(data.items)
    ELSE IF data.k = "str"
         THEN IF data.v = <<>> THEN [ok |-> TRUE, val |-> <<>>]
              ELSE [ok |-> FALSE, exc |-> "TypeError"]
    ELSE IF data.k = "obj"
         THEN IF data.type = Absent /\ data.query = Absent
                 /\ data.confidence = Absent /\ data.extra = Absent
              THEN [ok |-> TRUE, val |-> <<>>]
              ELSE [ok |-> FALSE, exc |-> "TypeError"]
    ELSE [ok |-> FALSE, exc |-> "TypeError"]

\* outcomes of an awaited call to an external collaborator
Returned(text) == [k |-> "return", text |-> text]
ReturnedNone == [k |-> "none"]
Raised(exc, msg) == [k |-> "raise", exc |-> exc, msg |-> msg]

\* IntentPlugin.analyze_intent, given the outcome of invoke_prompt
analyze_intent(completion) ==
    IF completion.k = "raise" THEN completion
    ELSE Returned(_extract_json(IF completion.k = "none" THEN EmptyArrayText
                                ELSE completion.text))

\* _analyze_intent whose except clause returns no intent
_analyze_intent_EmptyOnError(result, query) ==
    IF result.k = "raise" THEN <<>>
    ELSE LET json_response == IF result.k = "none" THEN EmptyArrayText ELSE result.text
             data == JsonLoads(json_response)
         IN  IF ~data.ok THEN <<>>
             ELSE LET intents == IntentsFromData(data.val)
                  IN  IF intents.ok THEN intents.val ELSE <<>>

\* OrchestratorAgentApp._analyze_intent, given the outcome of
\* kernel.invoke(AnalyzeIntent): any Exception gives the fallback
_analyze_intent(result, query) ==
    IF result.k = "raise" THEN Fallback(query)
    ELSE LET json_response == IF result.k = "none" THEN EmptyArrayText ELSE result.text
             data == JsonLoads(json_response)
         IN  IF ~data.ok THEN Fallback(query)
             ELSE LET intents == IntentsFromData(data.val)
                  IN  IF intents.ok THEN intents.val ELSE Fallback(query)

\* ------------------------------------------------------------------------
\* Responders
\* ------------------------------------------------------------------------
M365Types == {"M365Email", "M365Calendar", "M365Files", "M365People"}

\* "needle in msg" on the lowered error message, token-wise
Contains(msg, tok) == \E i \in 1..Len(msg) : msg[i] = tok

\* the chat call of line 232 raises AttributeError (the SDK has another
\* structure): line 251 returns the coroutine of _get_fallback_response
\* without awaiting it.  fallback is how the chat call of the fallback
\* would end; awaited tells whether the framework that receives the
\* coroutine as the function's value awaits it
SdkMismatch(fallback, awaited) ==
    [k |-> "raise", exc |-> "AttributeError", msg |-> <<"no attribute">>,
     fallback |-> fallback, awaited |-> awaited]

\* M365CopilotPlugin._get_fallback_response, given the outcome of its chat
\* call
_get_fallback_response(chat) ==
    IF chat.k = "raise"
    THEN Returned(<<"Error communicating with M365 Copilot: ">> \o chat.msg)
    ELSE IF chat.k = "none" THEN Returned(<<"Unable to retrieve response from Copilot.">>)
    ELSE chat

\* M365CopilotPlugin._call_copilot_chat_api, given the outcome of the
\* Copilot chat call: an AttributeError goes to the fallback, an error
\* naming a status is returned as a phrase, any other error is re-raised
_call_copilot_chat_api(chat) ==
    IF chat.k = "raise" /\ chat.exc = "AttributeError"
    THEN IF chat.awaited THEN _get_fallback_response(chat.fallback)
         ELSE Returned(<<"<coroutine object M365CopilotPlugin._get_fallback_response>">>)
    ELSE IF chat.k = "raise"
    THEN IF Contains(chat.msg, "401") \/ Contains(chat.msg, "unauthorized")
         THEN Returned(<<"Your session has expired. Please log in again.">>)
         ELSE IF Contains(chat.msg, "403") \/ Contains(chat.msg, "forbidden")
         THEN Returned(<<"You don't have access to Microsoft 365 Copilot. Please contact your administrator to verify your license.">>)
         ELSE IF Contains(chat.msg, "404") \/ Contains(chat.msg, "not found")
         THEN Returned(<<"The Copilot service is not available. Please try again later.">>)
         ELSE IF Contains(chat.msg, "500") \/ Contains(chat.msg, "server error")
         THEN Returned(<<"The Copilot service encountered an error. Please try again later.">>)
         ELSE chat
    ELSE IF chat.k = "none" THEN Returned(<<"No response received from Copilot.">>)
    ELSE chat

\* answer_general_question without its own fallback: the empty result is
\* passed on
answer_general_question_PassThrough(completion) == completion

\* AzureOpenAIPlugin.answer_general_question, given the outcome of
\* invoke_prompt
answer_general_question(completion) ==
    IF completion.k = "raise" THEN completion
    ELSE IF completion.k = "none"
         THEN Returned(<<"I'm unable to answer that question at the moment.">>)
         ELSE completion

\* SynthesisPlugin.synthesize, given the outcome of invoke_prompt
synthesize(completion) ==
    IF completion.k = "raise" THEN completion
    ELSE IF completion.k = "none"
         THEN Returned(<<"I couldn't synthesize a response.">>)
         ELSE completion

\* AgentResponse(agent, intent_type, content, success, error)
AgentResponse(agent, intent_type, content, success, error) ==
    [agent |-> agent, intent_type |-> intent_type, content |-> content,
     success |-> success, error |-> error]

\* _execute_m365_plugin, given the outcome of kernel.invoke: the response,
\* or the exception that propagates
_execute_m365_plugin(result, intent_type) ==
    IF result.k = "raise" THEN result
    ELSE Returned(AgentResponse("m365_copilot", intent_type,
                                IF result.k = "none" THEN <<"No response received.">>
                                ELSE result.text,
                                TRUE, JNull))

\* _execute_general_knowledge, given the outcome of kernel.invoke
_execute_general_knowledge(result) ==
    IF result.k = "raise" THEN result
    ELSE Returned(AgentResponse("azure_openai", Member(GENERAL_KNOWLEDGE),
                                IF result.k = "none" THEN <<"I'm unable to answer that question.">>
                                ELSE result.text,
                                TRUE, JNull))

\* Intent.is_m365_intent
is_m365_intent(intent) == intent.type \in {Member(n) : n \in M365Types}

\* the dispatch with QueryCalendar's branch calling QueryEmails
KernelFunction_CalendarAsEmail(intent) ==
    IF intent.type \in {Member("M365Email"), Member("M365Calendar")}
    THEN [plugin |-> "M365CopilotPlugin", function |-> "QueryEmails"]
    ELSE IF intent.type = Member("M365Files")
    THEN [plugin |-> "M365CopilotPlugin", function |-> "QueryFiles"]
    ELSE IF intent.type = Member("M365People")
    THEN [plugin |-> "M365CopilotPlugin", function |-> "QueryPeople"]
    ELSE IF intent.type = Member(GENERAL_KNOWLEDGE)
    THEN [plugin |-> "AzureOpenAIPlugin", function |-> "AnswerGeneralQuestion"]
    ELSE [plugin |-> "none", function |-> "none"]

\* the kernel function _execute_agent_for_intent invokes for an intent
\* (lines 390-407, with the plugin names of lines 449 and 481), or none
KernelFunction(intent) ==
    IF intent.type = Member("M365Email")
    THEN [plugin |-> "M365CopilotPlugin", function |-> "QueryEmails"]
    ELSE IF intent.type = Member("M365Calendar")
    THEN [plugin |-> "M365CopilotPlugin", function |-> "QueryCalendar"]
    ELSE IF intent.type = Member("M365Files")
    THEN [plugin |-> "M365CopilotPlugin", function |-> "QueryFiles"]
    ELSE IF intent.type = Member("M365People")
    THEN [plugin |-> "M365CopilotPlugin", function |-> "QueryPeople"]
    ELSE IF intent.type = Member(GENERAL_KNOWLEDGE)
    THEN [plugin |-> "AzureOpenAIPlugin", function |-> "AnswerGeneralQuestion"]
    ELSE [plugin |-> "none", function |-> "none"]

\* the plugin function an intent is dispatched to, applied to the outcome of
\* the external call it awaits
Responder(intent, outcome) ==
    IF intent.type.k = "enum" /\ intent.type.name \in M365Types
    THEN _call_copilot_chat_api(outcome)
    ELSE answer_general_question(outcome)

\* _execute_agent_for_intent whose except clause builds the response the
\* way the parallel guard does, without error=
_execute_agent_for_intent_NoError(intent, outcome) ==
    LET r == IF intent.type.k = "enum" /\ intent.type.name \in M365Types
             THEN _execute_m365_plugin(Responder(intent, outcome), intent.type)
             ELSE IF intent.type = Member(GENERAL_KNOWLEDGE)
             THEN _execute_general_knowledge(Responder(intent, outcome))
             ELSE Returned(AgentResponse("unknown", intent.type,
                                         <<"I'm not sure how to handle that request.">>,
                                         FALSE, JNull))
    IN  IF r.k # "raise" THEN r
        ELSE Returned(AgentResponse(intent.type.name, intent.type,
                                    <<"Error: ">> \o r.msg, FALSE, JNull))

\* _execute_agent_for_intent without its try/except: the responder's
\* exception escapes
_execute_agent_for_intent_NoCatch(intent, outcome) ==
    IF intent.type.k = "enum" /\ intent.type.name \in M365Types
    THEN _execute_m365_plugin(Responder(intent, outcome), intent.type)
    ELSE IF intent.type = Member(GENERAL_KNOWLEDGE)
    THEN _execute_general_knowledge(Responder(intent, outcome))
    ELSE Returned(AgentResponse("unknown", intent.type,
                                <<"I'm not sure how to handle that request.">>,
                                FALSE, JNull))

\* _execute_agent_for_intent, given the outcome of the external call of
\* the responder the intent is dispatched to: Returned(AgentResponse), or
\* the exception that escapes
_execute_agent_for_intent(intent, outcome) ==
    LET r == IF intent.type.k = "enum" /\ intent.type.name \in M365Types
             THEN _execute_m365_plugin(Responder(intent, outcome), intent.type)
             ELSE IF intent.type = Member(GENERAL_KNOWLEDGE)
             THEN _execute_general_knowledge(Responder(intent, outcome))
             ELSE Returned(AgentResponse("unknown", intent.type,
                                         <<"I'm not sure how to handle that request.">>,
                                         FALSE, JNull))
    IN  IF r.k # "raise" THEN r
        ELSE IF intent.type.k # "enum" THEN Raised("AttributeError", <<"value">>)
        ELSE Returned(AgentResponse(intent.type.name, intent.type,
                                    <<"Error: ">> \o r.msg, FALSE, JStr(r.msg)))

\* intents[:n]
RECURSIVE Take(_, _)
Take(seq, n) == IF n <= 0 \/ seq = <<>> THEN <<>> ELSE <<Head(seq)>> \o Take(Tail(seq), n - 1)

PySlicePrefix(seq, n) == IF n >= 0 THEN Take(seq, n) ELSE Take(seq, Len(seq) + n)

\* lines 163-169 of on_message_activity
Truncate(intents, max_agent_calls) ==
    IF Len(intents) > max_agent_calls THEN PySlicePrefix(intents, max_agent_calls)
    ELSE intents

\* a slot of asyncio.gather whose task has not finished
Pending == [k |-> "pending"]

\* format_responses_for_synthesis without the success filter
RECURSIVE format_responses_for_synthesis_Unfiltered(_)
format_responses_for_synthesis_Unfiltered(responses) ==
    IF responses = <<>> THEN <<>>
    ELSE LET r == Head(responses)
         IN  <<[agent |-> r.agent, intent_type |-> r.intent_type.name, content |-> r.content]>>
                 \o format_responses_for_synthesis_Unfiltered(Tail(responses))

\* SynthesisPlugin.format_responses_for_synthesis
RECURSIVE format_responses_for_synthesis(_)
format_responses_for_synthesis(responses) ==
    IF responses = <<>> THEN <<>>
    ELSE LET r == Head(responses)
             rest == format_responses_for_synthesis(Tail(responses))
         IN  IF r.success
             THEN <<[agent |-> r.agent, intent_type |-> r.intent_type.name, content |-> r.content]>> \o rest
             ELSE rest

\* _synthesize_response, given the outcome of kernel.invoke(Synthesize)
_synthesize_response(result) ==
    IF result.k = "raise" THEN result
    ELSE IF result.k = "none" THEN Returned(<<"I couldn't generate a response.">>)
    ELSE result

\* str.strip() of the activity text
RECURSIVE LStrip(_)
LStrip(t) == IF t # <<>> /\ Head(t) = " " THEN LStrip(Tail(t)) ELSE t
RECURSIVE RStrip(_)
RStrip(t) == IF t # <<>> /\ t[Len(t)] = " " THEN RStrip(SubSeq(t, 1, Len(t) - 1)) ELSE t

\* a strip() that removes nothing
Strip_Nothing(t) == t

Strip(t) == RStrip(LStrip(t))

\* the length check of line 127, with >= for >
TooLong_Inclusive(message) == Len(message) >= MAX_MESSAGE_LENGTH

\* line 127: len(user_message) > MAX_MESSAGE_LENGTH
TooLong(message) == Len(message) > MAX_MESSAGE_LENGTH

\* ------------------------------------------------------------------------
\* IntentPlugin._extract_json on the text itself.  A reply is a sequence of
\* tokens: the fence of three backquotes, written "[fence]", the tagged
\* fence "[fence]json" (which contains the fence), the whitespace " " and
\* the other characters.
\* ------------------------------------------------------------------------
JSON_FENCE == "[fence]json"
PLAIN_FENCE == "[fence]"

\* the first position at or after from whose token is in S, 0 when none
RECURSIVE FirstIn(_, _, _)
FirstIn(reply, S, from) ==
    IF from > Len(reply) THEN 0
    ELSE IF reply[from] \in S THEN from
    ELSE FirstIn(reply, S, from + 1)

\* re.search(open \s*(.*?)\s* fence, DOTALL) and group(1).strip(): the text
\* between the first opening fence and the first fence after it, which may
\* be the start of a tagged fence
FencedContents(reply, open) ==
    LET i == FirstIn(reply, {open}, 1)
        j == IF i = 0 THEN 0 ELSE FirstIn(reply, {PLAIN_FENCE, JSON_FENCE}, i + 1)
    IN  IF j = 0 THEN [ok |-> FALSE, val |-> <<>>]
        ELSE [ok |-> TRUE, val |-> Strip(SubSeq(reply, i + 1, j - 1))]

\* IntentPlugin._extract_json (lines 140-161) on a token text
_extract_json_tokens(response) ==
    IF FirstIn(response, {JSON_FENCE}, 1) # 0
    THEN IF FencedContents(response, JSON_FENCE).ok
         THEN FencedContents(response, JSON_FENCE).val
         ELSE Strip(response)
    ELSE IF FirstIn(response, {PLAIN_FENCE}, 1) # 0
    THEN IF FencedContents(response, PLAIN_FENCE).ok
         THEN FencedContents(response, PLAIN_FENCE).val
         ELSE Strip(response)
    ELSE Strip(response)

\* the fixed replies
EMPTY_REPLY == <<"Please enter a message.">>
TOO_LONG_REPLY == <<"Message too long. Maximum 4000 characters allowed.">>
TIMEOUT_REPLY == <<"The request timed out. Please try a simpler query or try again later.">>
GENERIC_REPLY == <<"Sorry, an error occurred processing your request. Please try again.">>

\* ------------------------------------------------------------------------
\* Inputs of a turn
\* ------------------------------------------------------------------------
Chars(n) == [i \in 1..n |-> "a"]

\* context.activity.text: absent, or a text of one-character tokens
ActivityTexts ==
    {JNull} \cup {JStr(t) : t \in {<<>>, <<" ">>, <<" ", "a", " ">>,
                                   Chars(MAX_MESSAGE_LENGTH), Chars(MAX_MESSAGE_LENGTH + 1)}}

\* OrchestrationSettings: max_agent_calls is int(os.getenv(...)), any integer
Settings ==
    [max_agent_calls : -1..(MaxItems - 1), enable_parallel_execution : BOOLEAN]

Item(type, query) == JObj(JStr(<<type>>), JStr(<<query>>), Absent, Absent)

\* the elements of the arrays the classification reply carries in a turn
ReplyItems ==
    {Item("M365Email", "q1"), Item("GeneralKnowledge", "q2"), Item("Bad", "q3")}

RECURSIVE SeqsUpTo(_, _)
SeqsUpTo(S, n) ==
    IF n = 0 THEN {<<>>}
    ELSE LET shorter == SeqsUpTo(S, n - 1)
         IN  shorter \cup {Append(q, x) : q \in {r \in shorter : Len(r) = n - 1}, x \in S}

EmptyObject == JObj(Absent, Absent, Absent, Absent)

\* decoded values that are not arrays
NonArrayDocs == {JNull, JNum, JStr(<<>>), JStr(<<"abc">>), EmptyObject, Item("M365Email", "q1")}

\* outcomes of invoke_prompt for the classification prompt
ClassifyCompletions ==
    {Raised("Exception", <<"boom">>), Raised("TimeoutError", <<"slow">>), ReturnedNone,
     Returned(GarbageText("none")), Returned(GarbageText("json")),
     Returned(JsonText(JArr(<<Item("M365Email", "q1")>>), "json")),
     Returned(JsonText(JArr(<<Item("GeneralKnowledge", "q2")>>), "plain")),
     Returned(JsonText(JArr(<<JNum>>), "none")),
     Returned(JsonText(JArr(<<JObj(JNum, JStr(<<"q1">>), Absent, Absent)>>), "none"))}
    \cup {Returned(JsonText(d, "none")) : d \in NonArrayDocs}
    \cup {Returned(JsonText(JArr(items), "none")) : items \in SeqsUpTo(ReplyItems, MaxItems)}

\* outcomes of the external call a responder awaits
ResponderOutcomes ==
    {Returned(<<"answer">>), ReturnedNone, Raised("Exception", <<"boom">>)}

\* outcomes of invoke_prompt for the synthesis prompt
SynthCompletions ==
    {Returned(<<"synthesized">>), ReturnedNone,
     Raised("Exception", <<"boom">>), Raised("TimeoutError", <<"slow">>)}

\* exceptions an external call made outside a component's own try can raise
ExceptionKinds == {"Exception", "TimeoutError"}

\* ------------------------------------------------------------------------
\* State of one turn
\* ------------------------------------------------------------------------
VARIABLES
    activity_text,  \* context.activity.text of the inbound message
    settings,       \* self._settings.orchestration
    pc,             \* where on_message_activity is suspended
    user_message,   \* the stripped text
    timer,          \* asyncio.timeout: "off", "running", "expired", "exited"
    completion,     \* outcome of invoke_prompt for the classification
    classified,     \* what _analyze_intent returned
    intents,        \* after the max_agent_calls limit
    inflight,       \* indices of the intents whose responder call is pending
    gathered,       \* results of the tasks of asyncio.gather, by index
    completed,      \* indices of the intents in the order their call ended
    responses,      \* result of _execute_agents
    sending,        \* the pending context.send_activity call
    sent,           \* what the user received, in order
    expiredAt,      \* what was pending when the timer expired
    escaped,        \* the exception that left on_message_activity
    call,           \* a direct call of one function: its arguments and result
    outcomes,       \* by index, how the external call of each responder ended
    invoked,        \* how often each collaborator was called in the turn
    formatted_responses,  \* what _synthesize_response passes to Synthesize
    heap,           \* the kernels, plugin instances and agent contexts constructed
    turns,          \* of each of two concurrent turns: its position and local variables
    invocations,    \* the kernel.invoke calls made, with the objects each one used
    _storage,       \* ConversationStateManager._storage: conversation id -> dictionary
    dicts,          \* the items of every dictionary object
    _lock,          \* ConversationStateManager._lock: its holder, or "none"
    callers,        \* of each caller of the state manager: its call and position
    M365CopilotConversationId,  \* state.conversation's value of that name
    branches,       \* of each M365 branch of a turn: its position and its conversation_id
    copilot         \* the stage of that turn, its mode, the conversations created and used

vars == <<activity_text, settings, pc, user_message, timer, completion, classified,
          intents, inflight, gathered, completed, responses, sending, sent,
          expiredAt, escaped, call, outcomes, invoked, formatted_responses,
          heap, turns, invocations, _storage, dicts, _lock, callers,
          M365CopilotConversationId, branches, copilot>>

copilotVars == <<M365CopilotConversationId, branches, copilot>>

storeVars == <<_storage, dicts, _lock, callers>>

\* the state of one turn of on_message_activity and of a direct call
oneTurnVars == <<activity_text, settings, pc, user_message, timer, completion, classified,
                 intents, inflight, gathered, completed, responses, sending, sent,
                 expiredAt, escaped, call, outcomes, invoked, formatted_responses>>

NoCall == [fn |-> "none"]

\* ------------------------------------------------------------------------
\* The objects a turn's kernel calls work with.  An object is named by its
\* class and, if a turn constructs it, the turn.
\* ------------------------------------------------------------------------
\* application-wide objects of OrchestratorAgent.__init__ and _create_kernel
SERVICE == <<"AzureChatCompletion", 0>>
USER_AUTH == <<"Authorization", 0>>
LOGGER == <<"Logger", 0>>
BASE_KERNEL == <<"Kernel", 0>>

\* PluginNames
PluginNames == {"IntentPlugin", "M365CopilotPlugin", "AzureOpenAIPlugin", "SynthesisPlugin"}

\* the context and state the agent application hands to the handler of turn t
TurnContext(t) == <<"TurnContext", t>>
TurnState(t) == <<"TurnState", t>>

\* after __init__: the base kernel with the completion service, no plugins
BaseHeap ==
    [kernels |-> (BASE_KERNEL :> [services |-> {SERVICE}, plugins |-> << >>]),
     plugins |-> << >>,
     contexts |-> << >>]

\* no second turn is being handled
NoOtherTurns ==
    /\ heap = BaseHeap
    /\ turns = << >>
    /\ invocations = {}

\* no connector call is followed
NoCopilotCalls ==
    /\ M365CopilotConversationId = "None"
    /\ branches = << >>
    /\ copilot = [stage |-> "none"]

\* the variables a turn's connector calls leave alone
otherVars == <<oneTurnVars, heap, turns, invocations, storeVars>>

\* a new ConversationStateManager that nobody calls
NoStoreCalls ==
    /\ _storage = << >>
    /\ dicts = << >>
    /\ _lock = "none"
    /\ callers = << >>

\* _setup_plugins registering the plugins on the base kernel
Kernel_Base(t) == BASE_KERNEL

\* Kernel() of _setup_plugins in turn t: a new kernel
Kernel(t) == <<"Kernel", t>>

\* AgentContext(context=..., state=..., user_auth=self._agent_app.auth,
\* logger=self._logger) of turn t
AgentContext(t) ==
    [context |-> TurnContext(t), state |-> TurnState(t),
     user_auth |-> USER_AUTH, logger |-> LOGGER]

\* kernel.add_plugin(plugin, name) for a new plugin instance p bound to the
\* agent context c and the kernel k
add_plugin(h, k, name, p, c) ==
    [h EXCEPT !.plugins = (p :> [_context |-> c, _kernel |-> k]) @@ @,
              !.kernels[k].plugins = (name :> p) @@ @]

\* _setup_plugins of turn t for the agent context c, on heap h: the kernel
\* it returns and the heap it leaves
_setup_plugins(h, t, c) ==
    LET kernel == Kernel(t)
        created == IF kernel \in DOMAIN h.kernels THEN h
                   ELSE [h EXCEPT !.kernels = (kernel :> [services |-> {}, plugins |-> << >>]) @@ @]
        copied == [created EXCEPT !.kernels[kernel].services =
                                      @ \cup h.kernels[BASE_KERNEL].services]
        h1 == add_plugin(copied, kernel, "IntentPlugin", <<"IntentPlugin", t>>, c)
        h2 == add_plugin(h1, kernel, "M365CopilotPlugin", <<"M365CopilotPlugin", t>>, c)
        h3 == add_plugin(h2, kernel, "AzureOpenAIPlugin", <<"AzureOpenAIPlugin", t>>, c)
        h4 == add_plugin(h3, kernel, "SynthesisPlugin", <<"SynthesisPlugin", t>>, c)
    IN  [kernel |-> kernel, heap |-> h4]

\* kernel.invoke(plugin_name=name, ...) on kernel k: the objects the call
\* works with, found through the kernel's plugin table at the time of the
\* call and the instance's _context and _kernel
KernelInvoke(h, k, name) ==
    LET p == h.kernels[k].plugins[name]
        c == h.contexts[h.plugins[p]._context]
    IN  [kernel |-> k, plugin |-> p, agent_context |-> h.plugins[p]._context,
         context |-> c.context, state |-> c.state,
         user_auth |-> c.user_auth, logger |-> c.logger,
         services |-> h.kernels[h.plugins[p]._kernel].services]

NotSending == [k |-> "idle", text |-> <<>>, delivered |-> FALSE]
Send(kind, text) == [k |-> kind, text |-> text, delivered |-> FALSE]

\* calls made so far: of the classifier, of the responder of each executed
\* intent (by index), of the synthesizer
NotInvoked == [classify |-> 0, responders |-> <<>>, synthesize |-> 0]

\* the turn before the message is handled
TurnInit ==
    /\ pc = "idle"
    /\ user_message = <<>>
    /\ timer = "off"
    /\ completion = Pending
    /\ classified = <<>>
    /\ intents = <<>>
    /\ inflight = {}
    /\ gathered = <<>>
    /\ completed = <<>>
    /\ responses = <<>>
    /\ sending = NotSending
    /\ sent = <<>>
    /\ expiredAt = "none"
    /\ escaped = "none"
    /\ outcomes = <<>>
    /\ invoked = NotInvoked
    /\ formatted_responses = <<>>

Init ==
    /\ activity_text \in ActivityTexts
    /\ settings \in Settings
    /\ TurnInit
    /\ call = NoCall
    /\ NoOtherTurns
    /\ NoStoreCalls
    /\ NoCopilotCalls

\* ExceptReply without the except asyncio.TimeoutError clause
ExceptReply_NoTimeoutClause(exc) == Send("generic", GENERIC_REPLY)

\* the except clauses of on_message_activity: the reply for an exception
\* that reaches them
ExceptReply(exc) ==
    IF exc = "TimeoutError" THEN Send("timeout", TIMEOUT_REPLY) ELSE Send("generic", GENERIC_REPLY)

\* on_message_activity up to its first await (lines 120-161)
ReceiveMessage ==
    /\ pc = "idle"
    /\ LET stripped == IF activity_text.k = "str" THEN Strip(activity_text.v) ELSE <<>>
       IN  /\ user_message' = stripped
           /\ IF stripped = <<>>
              THEN /\ sending' = Send("reject", EMPTY_REPLY)
                   /\ pc' = "send"
                   /\ timer' = timer
              ELSE IF TooLong(stripped)
              THEN /\ sending' = Send("reject", TOO_LONG_REPLY)
                   /\ pc' = "send"
                   /\ timer' = timer
              ELSE \E setup \in {"ok"} \cup ExceptionKinds :
                     IF setup = "ok"
                     THEN /\ pc' = "classify"
                          /\ timer' = "running"
                          /\ sending' = sending
                     ELSE /\ pc' = "send"
                          /\ timer' = "exited"
                          /\ sending' = ExceptReply(setup)
    /\ invoked' = [invoked EXCEPT !.classify = IF pc' = "classify" THEN @ + 1 ELSE @]
    /\ UNCHANGED <<copilotVars, storeVars, heap, turns, invocations, activity_text, settings, completion, classified, intents, inflight,
                   gathered, completed, responses, sent, expiredAt, escaped, call,
                   outcomes, formatted_responses>>

\* GatherResult that takes the results in the order the tasks ended
GatherResult_CompletionOrder(tasks, results) ==
    [i \in 1..Len(tasks) |->
        IF results[completed[i]].k = "raise"
        THEN AgentResponse(tasks[i].type.name, tasks[i].type,
                           <<"Error: ">> \o results[completed[i]].msg, FALSE, JNull)
        ELSE results[completed[i]].text]

\* the loop of lines 346-362 without the isinstance test: every result of
\* gather is appended as it is
GatherResult_NoGuard(tasks, results) ==
    [i \in 1..Len(tasks) |-> IF results[i].k = "raise" THEN results[i] ELSE results[i].text]

\* lines 346-362 of _execute_agents: the results of gather, in task order,
\* an exception converted to a failed response
GatherResult(tasks, results) ==
    [i \in 1..Len(tasks) |->
        IF results[i].k = "raise"
        THEN AgentResponse(tasks[i].type.name, tasks[i].type,
                           <<"Error: ">> \o results[i].msg, FALSE, JNull)
        ELSE results[i].text]

\* _synthesize_response up to its await: the turn waits for Synthesize
StartSynthesis(resp) ==
    /\ responses' = resp
    /\ formatted_responses' = format_responses_for_synthesis(resp)
    /\ invoked' = [invoked EXCEPT !.synthesize = @ + 1]
    /\ pc' = "synthesize"
    /\ inflight' = {}

\* every task is started at once, in sequential mode too
FirstInFlight_AllAtOnce(n) == 1..n

\* the sequential loop starting at the last intent
FirstInFlight_LastOnly(n) == IF settings.enable_parallel_execution THEN 1..n ELSE {n}

\* the responder calls pending at the first await of _execute_agents over n
\* intents: all of them under gather (line 344), the first one in the
\* sequential loop (line 368)
FirstInFlight(n) == IF settings.enable_parallel_execution THEN 1..n ELSE {1}

\* kernel.invoke(AnalyzeIntent) ends (return or raise): the rest of
\* _analyze_intent, the max_agent_calls limit, the log line that reads
\* i.type.value, and _execute_agents up to its first await (lines 161-181)
ClassifyReturns ==
    /\ pc = "classify"
    /\ \E c \in ClassifyCompletions :
         LET all == _analyze_intent(analyze_intent(c), user_message)
             kept == Truncate(all, settings.max_agent_calls)
         IN  /\ completion' = c
             /\ classified' = all
             /\ intents' = kept
             /\ IF \E i \in 1..Len(kept) : kept[i].type.k # "enum"
                THEN \* AttributeError in the log line, caught at line 202
                     /\ sending' = ExceptReply("Exception")
                     /\ pc' = "send"
                     /\ timer' = "exited"
                     /\ UNCHANGED <<inflight, gathered, responses, outcomes, invoked,
                                    formatted_responses>>
                ELSE IF kept = <<>>
                THEN /\ StartSynthesis(<<>>)
                     /\ UNCHANGED <<sending, timer, gathered, outcomes>>
                ELSE /\ pc' = "execute"
                     /\ gathered' = [i \in 1..Len(kept) |-> Pending]
                     /\ outcomes' = [i \in 1..Len(kept) |-> Pending]
                     /\ inflight' = FirstInFlight(Len(kept))
                     /\ invoked' = [invoked EXCEPT !.responders =
                                       [i \in 1..Len(kept) |-> IF i \in inflight' THEN 1 ELSE 0]]
                     /\ UNCHANGED <<sending, timer, responses, formatted_responses>>
    /\ UNCHANGED <<copilotVars, storeVars, heap, turns, invocations, activity_text, settings, user_message, completed, sent, expiredAt, escaped, call>>

\* parallel mode: the task of intent i ends; gather stores its result
ParallelBranchReturns ==
    /\ pc = "execute"
    /\ settings.enable_parallel_execution
    /\ \E i \in inflight, o \in ResponderOutcomes :
         /\ gathered' = [gathered EXCEPT ![i] = _execute_agent_for_intent(intents[i], o)]
         /\ outcomes' = [outcomes EXCEPT ![i] = o]
         /\ inflight' = inflight \ {i}
         /\ completed' = Append(completed, i)
    /\ UNCHANGED <<copilotVars, storeVars, heap, turns, invocations, activity_text, settings, pc, user_message, timer, completion, classified,
                   intents, responses, sending, sent, expiredAt, escaped, call,
                   invoked, formatted_responses>>

\* parallel mode: every task has ended, gather returns and the loop of
\* lines 346-362 builds the result; then _synthesize_response up to its await
GatherReturns ==
    /\ pc = "execute"
    /\ settings.enable_parallel_execution
    /\ inflight = {}
    /\ StartSynthesis(GatherResult(intents, gathered))
    /\ gathered' = <<>>
    /\ UNCHANGED <<copilotVars, storeVars, heap, turns, invocations, activity_text, settings, user_message, timer, completion, classified,
                   intents, completed, sending, sent, expiredAt, escaped, call, outcomes>>

\* the sequential loop with its return inside the for: the stage ends after
\* the first intent
SequentialBranchReturns_ReturnInLoop ==
    /\ pc = "execute"
    /\ ~settings.enable_parallel_execution
    /\ \E i \in inflight, o \in ResponderOutcomes :
         LET r == _execute_agent_for_intent(intents[i], o)
         IN  /\ completed' = Append(completed, i)
             /\ outcomes' = [outcomes EXCEPT ![i] = o]
             /\ IF r.k = "raise"
                THEN /\ sending' = ExceptReply(r.exc)
                     /\ pc' = "send"
                     /\ timer' = "exited"
                     /\ inflight' = {}
                     /\ UNCHANGED <<responses, invoked, formatted_responses>>
                ELSE /\ StartSynthesis(Append(responses, r.text))
                     /\ UNCHANGED <<sending, timer>>
    /\ UNCHANGED <<copilotVars, storeVars, heap, turns, invocations, activity_text, settings, user_message, completion, classified,
                   intents, gathered, sent, expiredAt, escaped, call>>

\* sequential mode: the awaited call for intent i ends, its response is
\* appended and the loop goes on to the next intent (lines 365-369)
SequentialBranchReturns ==
    /\ pc = "execute"
    /\ ~settings.enable_parallel_execution
    /\ \E i \in inflight, o \in ResponderOutcomes :
         LET r == _execute_agent_for_intent(intents[i], o)
         IN  /\ completed' = Append(completed, i)
             /\ outcomes' = [outcomes EXCEPT ![i] = o]
             /\ IF r.k = "raise"
                THEN /\ sending' = ExceptReply(r.exc)
                     /\ pc' = "send"
                     /\ timer' = "exited"
                     /\ inflight' = {}
                     /\ UNCHANGED <<responses, invoked, formatted_responses>>
                ELSE IF i < Len(intents)
                THEN /\ responses' = Append(responses, r.text)
                     /\ inflight' = {i + 1}
                     /\ invoked' = [invoked EXCEPT !.responders[i + 1] = @ + 1]
                     /\ UNCHANGED <<pc, sending, timer, formatted_responses>>
                ELSE /\ StartSynthesis(Append(responses, r.text))
                     /\ UNCHANGED <<sending, timer>>
    /\ UNCHANGED <<copilotVars, storeVars, heap, turns, invocations, activity_text, settings, user_message, completion, classified,
                   intents, gathered, sent, expiredAt, escaped, call>>

\* kernel.invoke(Synthesize) ends: the rest of _synthesize_response and the
\* call of send_activity for the final response (lines 185-190).  Nothing
\* reads the responses after line 187: the model forgets them here.
SynthesisReturns ==
    /\ pc = "synthesize"
    /\ \E c \in SynthCompletions :
         LET r == _synthesize_response(synthesize(c))
         IN  IF r.k = "raise"
             THEN /\ sending' = ExceptReply(r.exc)
                  /\ timer' = "exited"
             ELSE /\ sending' = Send("final", r.text)
                  /\ timer' = timer
    /\ pc' = "send"
    /\ responses' = <<>>
    /\ completed' = <<>>
    /\ outcomes' = <<>>
    /\ formatted_responses' = <<>>
    /\ UNCHANGED <<copilotVars, storeVars, heap, turns, invocations, activity_text, settings, user_message, completion, classified, intents,
                   inflight, gathered, sent, expiredAt, escaped, call, invoked>>

\* the activity of the pending send_activity reaches the user
SendDelivered ==
    /\ pc = "send"
    /\ ~sending.delivered
    /\ sent' = Append(sent, sending.text)
    /\ sending' = [sending EXCEPT !.delivered = TRUE]
    /\ UNCHANGED <<copilotVars, storeVars, heap, turns, invocations, activity_text, settings, pc, user_message, timer, completion, classified,
                   intents, inflight, gathered, completed, responses, expiredAt, escaped, call,
                   outcomes, invoked, formatted_responses>>

\* send_activity returns; the handler has nothing left to do
SendReturns ==
    /\ pc = "send"
    /\ sending.delivered
    /\ pc' = "done"
    /\ sending' = NotSending
    /\ timer' = IF sending.k = "final" THEN "exited" ELSE timer
    /\ UNCHANGED <<copilotVars, storeVars, heap, turns, invocations, activity_text, settings, user_message, completion, classified, intents,
                   inflight, gathered, completed, responses, sent, expiredAt, escaped, call,
                   outcomes, invoked, formatted_responses>>

\* send_activity raises, before or after the activity reached the user: the
\* send of line 190 is inside the try, every other send is not
SendRaises ==
    /\ pc = "send"
    /\ \E exc \in ExceptionKinds :
         IF sending.k = "final"
         THEN /\ sending' = ExceptReply(exc)
              /\ timer' = "exited"
              /\ UNCHANGED <<pc, escaped>>
         ELSE /\ sending' = NotSending
              /\ pc' = "raised"
              /\ escaped' = exc
              /\ UNCHANGED timer
    /\ UNCHANGED <<copilotVars, storeVars, heap, turns, invocations, activity_text, settings, user_message, completion, classified, intents,
                   inflight, gathered, completed, responses, sent, expiredAt, call,
                   outcomes, invoked, formatted_responses>>

\* a timed block whose expiry does not reach the tasks of gather
TimedStages_NotExecute == {"classify", "synthesize", "send"}

\* the awaits inside the asyncio.timeout block (lines 137-190): the expiry
\* cancels whichever is pending
TimedStages == {"classify", "execute", "synthesize", "send"}

\* the delay of asyncio.timeout elapses while the handler is suspended
\* inside the block: the pending await is cancelled, the tasks of gather
\* with it, and line 194 catches the TimeoutError.  The frames that held
\* the partial results are unwound: the model forgets them.
TimerExpires ==
    /\ timer = "running"
    /\ pc \in TimedStages
    /\ timer' = "expired"
    /\ expiredAt' = pc
    /\ inflight' = {}
    /\ sending' = ExceptReply("TimeoutError")
    /\ pc' = "send"
    /\ gathered' = <<>>
    /\ responses' = <<>>
    /\ completed' = <<>>
    /\ outcomes' = <<>>
    /\ formatted_responses' = <<>>
    /\ UNCHANGED <<copilotVars, storeVars, heap, turns, invocations, activity_text, settings, user_message, completion, classified, intents,
                   sent, escaped, call, invoked>>

Next ==
    \/ ReceiveMessage
    \/ ClassifyReturns
    \/ ParallelBranchReturns
    \/ GatherReturns
    \/ SequentialBranchReturns
    \/ SynthesisReturns
    \/ SendDelivered
    \/ SendReturns
    \/ SendRaises
    \/ TimerExpires

Spec == Init /\ [][Next]_vars

\* the event loop runs the timer's callback once the delay of line 137, an
\* integer of seconds, has elapsed; no collaborator is assumed to return
LiveInit ==
    /\ Init
    /\ activity_text = JStr(<<" ", "a", " ">>)

LiveSpec == LiveInit /\ [][Next]_vars /\ WF_vars(TimerExpires)

TypeOK ==
    /\ pc \in {"idle", "classify", "execute", "synthesize", "send", "done", "raised"}
    /\ timer \in {"off", "running", "expired", "exited"}
    /\ inflight \subseteq 1..Len(intents)

\* ------------------------------------------------------------------------
\* Direct calls of the functions, on inputs richer than one turn carries
\* ------------------------------------------------------------------------
\* elements of a decoded array: well-formed objects, objects that fail the
\* validation, and values that are not objects
ParseInputItems ==
    {Item("M365Email", "q1"), Item("GeneralKnowledge", "q2"),
     JObj(JStr(<<"M365Files">>), JStr(<<"q4">>), JNum, Absent),
     Item("Bad", "q3"),
     JObj(Absent, JStr(<<"q1">>), Absent, Absent),
     JObj(JStr(<<"M365Email">>), Absent, Absent, Absent),
     JObj(JNum, JStr(<<"q1">>), Absent, Absent),
     JObj(JNull, JStr(<<"q1">>), Absent, Absent),
     JObj(JStr(<<"M365Email">>), JNum, Absent, Absent),
     JObj(JStr(<<"M365Email">>), JStr(<<"q1">>), Absent, JNum),
     JNum, JStr(<<"abc">>), JNull, JArr(<<>>)}

ParseInputTexts ==
    {GarbageText("none"), JsonText(JArr(<<Item("M365Email", "q1")>>), "json")}
    \cup {JsonText(d, "none") : d \in NonArrayDocs}
    \cup {JsonText(JArr(items), "none") : items \in SeqsUpTo(ParseInputItems, MaxParseItems)}

OriginalQueries == {<<"o", "q">>}

ExecInputIntents ==
    {[type |-> t, query |-> JStr(<<q>>), confidence |-> JNull] :
        t \in {Member(n) : n \in IntentType} \cup {JNum, JNull}, q \in {"q1", "q2"}}

ExecInputOutcomes ==
    {Returned(<<"answer">>), ReturnedNone,
     Raised("Exception", <<"boom">>), Raised("TimeoutError", <<"slow">>),
     Raised("Exception", <<"401", "unauthorized">>),
     Raised("Exception", <<"server error">>),
     Raised("Exception", <<"403", "not found">>), Raised("Exception", <<"404", "500">>),
     SdkMismatch(Returned(<<"answer">>), TRUE), SdkMismatch(ReturnedNone, TRUE),
     SdkMismatch(Raised("Exception", <<"boom">>), TRUE),
     SdkMismatch(Raised("Exception", <<"boom">>), FALSE)}

\* intents of a direct call of _execute_agents: as inside a turn, their
\* types are members of IntentType
GuardInputIntents ==
    {[type |-> Member(n), query |-> JStr(<<"q1">>), confidence |-> JNull] :
        n \in {"M365Email", "GeneralKnowledge"}}

\* direct calls of the parallel branch of _execute_agents with an executor
\* that returns its response for some intents and raises for the others
GuardCalls ==
    UNION {{[fn |-> "_execute_agents", intents |-> its,
             results |-> [i \in 1..n |->
                            IF i \in raising THEN Raised("Exception", <<"boom">>)
                            ELSE _execute_agent_for_intent(its[i], Returned(<<"answer">>))],
             out |-> Pending] :
              its \in [1..n -> GuardInputIntents], raising \in SUBSET (1..n)} :
           n \in 1..MaxItems}

\* replies given to _extract_json in a direct call
ReplyTokenTexts == SeqsUpTo({JSON_FENCE, PLAIN_FENCE, " ", "a"}, MaxReplyTokens)

PureCalls ==
    {[fn |-> "parse_intent_response", text |-> t, query |-> q, out |-> Pending] :
        t \in ParseInputTexts, q \in OriginalQueries}
    \cup {[fn |-> "_analyze_intent", text |-> t, query |-> q, out |-> Pending] :
        t \in ParseInputTexts, q \in OriginalQueries}
    \cup {[fn |-> "_execute_agent_for_intent", intent |-> i, outcome |-> o,
             invokes |-> Pending, out |-> Pending] :
        i \in ExecInputIntents, o \in ExecInputOutcomes}
    \cup GuardCalls
    \cup {[fn |-> "_synthesize_response", completion |-> c, out |-> Pending] :
            c \in SynthCompletions}
    \cup {[fn |-> "_extract_json", response |-> r, out |-> Pending] : r \in ReplyTokenTexts}

PureInit ==
    /\ activity_text = JNull
    /\ settings = [max_agent_calls |-> 5, enable_parallel_execution |-> TRUE]
    /\ TurnInit
    /\ call \in PureCalls
    /\ NoOtherTurns
    /\ NoStoreCalls
    /\ NoCopilotCalls

Call_parse_intent_response ==
    /\ call.fn = "parse_intent_response"
    /\ call.out = Pending
    /\ call' = [call EXCEPT !.out = parse_intent_response(call.text, call.query)]
    /\ UNCHANGED <<copilotVars, storeVars, heap, turns, invocations, activity_text, settings, pc, user_message, timer, completion, classified,
                   intents, inflight, gathered, completed, responses, sending, sent,
                   expiredAt, escaped, outcomes, invoked, formatted_responses>>

\* out is the list _analyze_intent returns when kernel.invoke returned text
Call_analyze_intent ==
    /\ call.fn = "_analyze_intent"
    /\ call.out = Pending
    /\ call' = [call EXCEPT !.out = [ok |-> TRUE, val |-> _analyze_intent(Returned(call.text), call.query)]]
    /\ UNCHANGED <<copilotVars, storeVars, heap, turns, invocations, activity_text, settings, pc, user_message, timer, completion, classified,
                   intents, inflight, gathered, completed, responses, sending, sent,
                   expiredAt, escaped, outcomes, invoked, formatted_responses>>

Call_execute_agent_for_intent ==
    /\ call.fn = "_execute_agent_for_intent"
    /\ call.out = Pending
    /\ call' = [call EXCEPT !.invokes = KernelFunction(call.intent),
                            !.out = _execute_agent_for_intent(call.intent, call.outcome)]
    /\ UNCHANGED <<copilotVars, storeVars, heap, turns, invocations, activity_text, settings, pc, user_message, timer, completion, classified,
                   intents, inflight, gathered, completed, responses, sending, sent,
                   expiredAt, escaped, outcomes, invoked, formatted_responses>>

\* the parallel branch of _execute_agents once gather has returned
Call_execute_agents ==
    /\ call.fn = "_execute_agents"
    /\ call.out = Pending
    /\ call' = [call EXCEPT !.out = Returned(GatherResult(call.intents, call.results))]
    /\ UNCHANGED <<copilotVars, storeVars, heap, turns, invocations, activity_text, settings, pc, user_message, timer, completion, classified,
                   intents, inflight, gathered, completed, responses, sending, sent,
                   expiredAt, escaped, outcomes, invoked, formatted_responses>>

\* _synthesize_response over the Synthesize function of the plugin, given
\* the outcome of the completion call
Call_synthesize_response ==
    /\ call.fn = "_synthesize_response"
    /\ call.out = Pending
    /\ call' = [call EXCEPT !.out = _synthesize_response(synthesize(call.completion))]
    /\ UNCHANGED <<copilotVars, storeVars, heap, turns, invocations, activity_text, settings, pc, user_message, timer, completion, classified,
                   intents, inflight, gathered, completed, responses, sending, sent,
                   expiredAt, escaped, outcomes, invoked, formatted_responses>>

Call_extract_json ==
    /\ call.fn = "_extract_json"
    /\ call.out = Pending
    /\ call' = [call EXCEPT !.out = Returned(_extract_json_tokens(call.response))]
    /\ UNCHANGED <<copilotVars, storeVars, heap, turns, invocations, activity_text, settings, pc, user_message, timer, completion, classified,
                   intents, inflight, gathered, completed, responses, sending, sent,
                   expiredAt, escaped, outcomes, invoked, formatted_responses>>

PureNext ==
    \/ Call_parse_intent_response
    \/ Call_analyze_intent
    \/ Call_execute_agent_for_intent
    \/ Call_execute_agents
    \/ Call_synthesize_response
    \/ Call_extract_json

PureSpec == PureInit /\ [][PureNext]_vars

\* ------------------------------------------------------------------------
\* Two turns of on_message_activity handled concurrently on one event loop:
\* a turn runs without interruption from one await to the next.
\* ------------------------------------------------------------------------
Turns == {1, 2}

\* the intents of a turn, all of member type
TurnIntents ==
    {is \in SeqsUpTo(GuardInputIntents, MaxTurnIntents) : is # <<>>}

TurnsInit ==
    /\ activity_text = JNull
    /\ settings = [max_agent_calls |-> 5, enable_parallel_execution |-> FALSE]
    /\ TurnInit
    /\ call = NoCall
    /\ heap = BaseHeap
    /\ turns \in [Turns -> {[pc |-> "idle", intents |-> is, next |-> 1,
                              agent_context |-> <<"none", 0>>, kernel |-> <<"none", 0>>] :
                                is \in TurnIntents}]
    /\ invocations = {}
    /\ NoStoreCalls
    /\ NoCopilotCalls

Invoke(t, name) ==
    invocations' = invocations \cup
        {[turn |-> t, plugin_name |-> name, uses |-> KernelInvoke(heap, turns[t].kernel, name)]}

\* lines 139-157: the agent context and the kernel of the turn, then the
\* first await, of _analyze_intent
BeginTurn(t) ==
    /\ turns[t].pc = "idle"
    /\ LET c == <<"AgentContext", t>>
           h == [heap EXCEPT !.contexts = (c :> AgentContext(t)) @@ @]
           r == _setup_plugins(h, t, c)
       IN  /\ heap' = r.heap
           /\ turns' = [turns EXCEPT ![t].pc = "classify", ![t].agent_context = c,
                                     ![t].kernel = r.kernel]
    /\ UNCHANGED invocations
    /\ UNCHANGED <<oneTurnVars, storeVars, copilotVars>>

\* kernel.invoke of the AnalyzeIntent function runs (line 301)
InvokeIntentPlugin(t) ==
    /\ turns[t].pc = "classify"
    /\ Invoke(t, "IntentPlugin")
    /\ turns' = [turns EXCEPT ![t].pc = "execute"]
    /\ UNCHANGED heap
    /\ UNCHANGED <<oneTurnVars, storeVars, copilotVars>>

\* kernel.invoke of the responder of the next intent runs (lines 448, 480)
InvokeResponder(t) ==
    /\ turns[t].pc = "execute"
    /\ Invoke(t, KernelFunction(turns[t].intents[turns[t].next]).plugin)
    /\ turns' = [turns EXCEPT ![t].next = @ + 1,
                              ![t].pc = IF turns[t].next = Len(turns[t].intents)
                                        THEN "synthesize" ELSE "execute"]
    /\ UNCHANGED heap
    /\ UNCHANGED <<oneTurnVars, storeVars, copilotVars>>

\* kernel.invoke of the Synthesize function runs (line 519)
InvokeSynthesisPlugin(t) ==
    /\ turns[t].pc = "synthesize"
    /\ Invoke(t, "SynthesisPlugin")
    /\ turns' = [turns EXCEPT ![t].pc = "done"]
    /\ UNCHANGED heap
    /\ UNCHANGED <<oneTurnVars, storeVars, copilotVars>>

TurnsNext ==
    \/ \E t \in Turns : BeginTurn(t)
    \/ \E t \in Turns : InvokeIntentPlugin(t)
    \/ \E t \in Turns : InvokeResponder(t)
    \/ \E t \in Turns : InvokeSynthesisPlugin(t)

TurnsSpec == TurnsInit /\ [][TurnsNext]_vars

\* ------------------------------------------------------------------------
\* ConversationStateManager: callers running its coroutines concurrently.
\* A dictionary is an object: dicts maps its identity to its items, and
\* _storage maps a conversation id to the identity of its dictionary.
\* ------------------------------------------------------------------------
\* the pipeline variables while only the state manager is exercised
pipelineVars == <<oneTurnVars, heap, turns, invocations, copilotVars>>

PipelineIdle ==
    /\ activity_text = JNull
    /\ settings = [max_agent_calls |-> 5, enable_parallel_execution |-> FALSE]
    /\ TurnInit
    /\ call = NoCall
    /\ NoOtherTurns
    /\ NoCopilotCalls

Callers == {"t1", "t2"}
ConvIds == {"A", "B"}
Keys == {"k1", "k2"}
Vals == {"v1", "v2"}
NoVal == "absent"
DEFAULT == "None"

\* the items of a dictionary: the value of each key, or no value
EmptyItems == [k \in Keys |-> NoVal]
ArgItems ==
    {EmptyItems, [k1 |-> "v1", k2 |-> NoVal], [k1 |-> NoVal, k2 |-> "v2"],
     [k1 |-> "v2", k2 |-> "v2"]}

NoDict == <<"none", "none">>

\* the calls a caller makes
StoreCalls ==
    {[op |-> "get_state", conv |-> c, key |-> "k1", value |-> NoVal] : c \in ConvIds}
    \cup {[op |-> o, conv |-> c, key |-> "k1", value |-> NoVal] :
            o \in {"set_state", "update_state"}, c \in ConvIds}
    \cup {[op |-> "get_value", conv |-> c, key |-> k, value |-> NoVal] :
            c \in ConvIds, k \in Keys}
    \cup {[op |-> "set_value", conv |-> c, key |-> k, value |-> "v2"] :
            c \in ConvIds, k \in Keys}
    \cup {[op |-> "clear_state", conv |-> c, key |-> "k1", value |-> NoVal] : c \in ConvIds}

\* the dictionary a caller passes to set_state or update_state
ArgOf(t) == <<"arg", t>>

\* dict.copy() that returns the dictionary itself
copy_Alias(ds, src, new) == [id |-> src, dicts |-> ds]

\* dict.copy(): a new dictionary new with the items of src
copy(ds, src, new) == [id |-> new, dicts |-> (new :> ds[src]) @@ ds]

\* dict.update(updates) on items
update(items, updates) ==
    [k \in Keys |-> IF updates[k] # NoVal THEN updates[k] ELSE items[k]]

\* the lock taken whatever its state
Locked_Never(holder) == FALSE

\* asyncio.Lock.locked()
Locked(holder) == holder # "none"

\* clear_state that empties the whole storage
clear_state_All(s, conversation_id) == << >>

\* clear_state (lines 99-100): the storage without the conversation
clear_state(s, conversation_id) ==
    [c \in DOMAIN s \ {conversation_id} |-> s[c]]

StoreInit ==
    /\ \E present \in {{}, {"A"}, {"A", "B"}} :
         /\ _storage = [c \in present |-> <<"stored", c>>]
         /\ \E args \in [Callers -> ArgItems] :
              dicts = [d \in {<<"stored", c>> : c \in present} \cup {ArgOf(t) : t \in Callers} |->
                         IF d[1] = "stored" THEN [k1 |-> "v1", k2 |-> NoVal] ELSE args[d[2]]]
    /\ _lock = "none"
    /\ PipelineIdle
    /\ callers \in [Callers -> {[call |-> c, pc |-> "start", missing |-> FALSE,
                                 ret_dict |-> NoDict, ret_value |-> NoVal] : c \in StoreCalls}]

\* async with self._lock: the caller gets the lock when nobody holds it
Acquire(t) ==
    /\ callers[t].pc = "start"
    /\ ~Locked(_lock)
    /\ _lock' = t
    /\ callers' = [callers EXCEPT ![t].pc = "locked"]
    /\ UNCHANGED <<_storage, dicts>>
    /\ UNCHANGED pipelineVars

\* update_state and set_value: the test of line 57 and of line 87
TestMissing(t) ==
    /\ callers[t].pc = "locked"
    /\ callers[t].call.op \in {"update_state", "set_value"}
    /\ callers' = [callers EXCEPT ![t].pc = "tested",
                                  ![t].missing = callers[t].call.conv \notin DOMAIN _storage]
    /\ UNCHANGED <<_storage, dicts, _lock>>
    /\ UNCHANGED pipelineVars

\* update_state and set_value: the rest of the body and the release of the
\* lock (lines 58-59 and 88-89)
WriteAndRelease(t) ==
    LET c == callers[t].call
        s1 == IF callers[t].missing THEN (c.conv :> <<"new", t>>) @@ _storage ELSE _storage
        d1 == IF callers[t].missing THEN (<<"new", t>> :> EmptyItems) @@ dicts ELSE dicts
        target == s1[c.conv]
    IN  /\ callers[t].pc = "tested"
        /\ c.conv \in DOMAIN s1
        /\ _storage' = s1
        /\ dicts' = [d1 EXCEPT ![target] =
                        IF c.op = "update_state" THEN update(@, d1[ArgOf(t)])
                        ELSE [@ EXCEPT ![c.key] = c.value]]
        /\ _lock' = "none"
        /\ callers' = [callers EXCEPT ![t].pc = "done"]
        /\ UNCHANGED pipelineVars

\* get_state, set_state, get_value, clear_state: the body and the release of
\* the lock
BodyAndRelease(t) ==
    LET c == callers[t].call
        tmp == <<"tmp", t>>
        \* self._storage.get(conversation_id, {})
        withTmp == (tmp :> EmptyItems) @@ dicts
        found == IF c.conv \in DOMAIN _storage THEN _storage[c.conv] ELSE tmp
    IN  /\ callers[t].pc = "locked"
        /\ c.op \in {"get_state", "set_state", "get_value", "clear_state"}
        /\ IF c.op = "get_state"
           THEN LET r == copy(withTmp, found, <<"ret", t>>)
                IN  /\ dicts' = [d \in DOMAIN r.dicts \ ({tmp} \ {r.id}) |-> r.dicts[d]]
                    /\ callers' = [callers EXCEPT ![t].pc = "done", ![t].ret_dict = r.id]
                    /\ UNCHANGED _storage
           ELSE IF c.op = "set_state"
           THEN LET r == copy(dicts, ArgOf(t), <<"copy", t>>)
                IN  /\ dicts' = r.dicts
                    /\ _storage' = (c.conv :> r.id) @@ _storage
                    /\ callers' = [callers EXCEPT ![t].pc = "done"]
           ELSE IF c.op = "get_value"
           THEN /\ callers' = [callers EXCEPT ![t].pc = "done", ![t].ret_value =
                                  IF withTmp[found][c.key] # NoVal
                                  THEN withTmp[found][c.key] ELSE DEFAULT]
                /\ UNCHANGED <<_storage, dicts>>
           ELSE /\ _storage' = clear_state(_storage, c.conv)
                /\ callers' = [callers EXCEPT ![t].pc = "done"]
                /\ UNCHANGED dicts
        /\ _lock' = "none"
        /\ UNCHANGED pipelineVars

\* the dictionaries a caller still holds after its call: the argument of
\* set_state or update_state, the result of get_state
HeldBy(t) ==
    (IF callers[t].call.op \in {"set_state", "update_state"} THEN {ArgOf(t)} ELSE {})
    \cup (IF callers[t].ret_dict # NoDict THEN {callers[t].ret_dict} ELSE {})

\* the caller adds, replaces or removes a top-level key of a dictionary it
\* holds
CallerMutates(t) ==
    /\ callers[t].pc = "done"
    /\ \E d \in HeldBy(t), k \in Keys, v \in {"v2", NoVal} :
         /\ dicts[d][k] # v
         /\ dicts' = [dicts EXCEPT ![d][k] = v]
    /\ callers' = [callers EXCEPT ![t].pc = "mutated"]
    /\ UNCHANGED <<_storage, _lock>>
    /\ UNCHANGED pipelineVars

StoreNext ==
    \/ \E t \in Callers : Acquire(t)
    \/ \E t \in Callers : TestMissing(t)
    \/ \E t \in Callers : WriteAndRelease(t)
    \/ \E t \in Callers : BodyAndRelease(t)
    \/ \E t \in Callers : CallerMutates(t)

StoreSpec == StoreInit /\ [][StoreNext]_vars

\* ------------------------------------------------------------------------
\* The execute stage of a turn whose intents are all M365 intents, with
\* M365CopilotPlugin._call_copilot_chat_api followed from await to await.
\* ------------------------------------------------------------------------
\* the value get_value gives when no conversation ID is stored
NO_ID == "None"
EMPTY_ID == ""

\* the ID of the conversation the service creates for the request of
\* branch i: every conversation has an ID of its own
NewId(i) == IF i = 1 THEN "c1" ELSE IF i = 2 THEN "c2" ELSE "c3"

\* what conversations.post returns or does (lines 202-204)
CreateOutcomes(i) ==
    {[k |-> "conversation", id |-> NewId(i)], [k |-> "conversation", id |-> EMPTY_ID],
     [k |-> "none", id |-> EMPTY_ID], [k |-> "raise", id |-> EMPTY_ID]}

\* what _create_copilot_client does: the client, or an error (no access
\* token, lines 303-306, or an error of exchange_token)
ClientOutcomes == {"client", "raise"}

\* the test of line 206 that lets every result pass
NoIdReturned_Never(conversation) == FALSE

\* not conversation or not conversation.id (line 206)
NoIdReturned(conversation) ==
    conversation.k = "none" \/ conversation.id = EMPTY_ID

\* not conversation_id (line 198)
Unset(conversation_id) == conversation_id \in {NO_ID, EMPTY_ID}

\* tasks that go on when the handler's task is cancelled
Cancelled_Shielded(b) == b

\* the cancellation of the handler's task reaches a branch: gather cancels
\* the tasks that have not ended, and a task that has not run yet never runs
Cancelled(b) ==
    IF b.pc \in {"done", "failed"} THEN b ELSE [b EXCEPT !.pc = "cancelled"]

CopilotInit ==
    /\ activity_text = JNull
    /\ settings = [max_agent_calls |-> 5, enable_parallel_execution |-> FALSE]
    /\ TurnInit
    /\ call = NoCall
    /\ NoOtherTurns
    /\ NoStoreCalls
    /\ M365CopilotConversationId \in {NO_ID, "c0"}
    /\ \E n \in 1..MaxBranches :
         branches = [i \in 1..n |-> [pc |-> "new", conversation_id |-> NO_ID]]
    /\ \E parallel \in BOOLEAN :
         copilot = [stage |-> "execute", parallel |-> parallel,
                    stored_at_start |-> M365CopilotConversationId,
                    created |-> {}, chatted |-> {}]

Ended(b) == b.pc \in {"done", "failed"}

\* the task of branch i runs to its first await: the read of line 191 and
\* the call of _create_copilot_client.  Under gather every task is started;
\* the sequential loop starts a branch when the one before has ended.
BranchStarts(i) ==
    /\ copilot.stage = "execute"
    /\ branches[i].pc = "new"
    /\ copilot.parallel \/ \A j \in 1..(i - 1) : Ended(branches[j])
    /\ branches' = [branches EXCEPT ![i] =
                       [pc |-> "client", conversation_id |-> M365CopilotConversationId]]
    /\ UNCHANGED <<M365CopilotConversationId, copilot>>
    /\ UNCHANGED otherVars

\* _create_copilot_client ends; with a client and no conversation ID the
\* branch posts a new conversation (line 202), with an ID it posts the chat
\* message (line 232)
ClientReturns(i) ==
    /\ branches[i].pc = "client"
    /\ \E o \in ClientOutcomes :
         IF o = "raise"
         THEN /\ branches' = [branches EXCEPT ![i].pc = "failed"]
              /\ UNCHANGED copilot
         ELSE IF Unset(branches[i].conversation_id)
         THEN /\ branches' = [branches EXCEPT ![i].pc = "creating"]
              /\ UNCHANGED copilot
         ELSE /\ branches' = [branches EXCEPT ![i].pc = "chatting"]
              /\ copilot' = [copilot EXCEPT !.chatted = @ \cup {branches[i].conversation_id}]
    /\ UNCHANGED M365CopilotConversationId
    /\ UNCHANGED otherVars

\* conversations.post ends: lines 206-211, then the chat message is posted
CreateReturns(i) ==
    /\ branches[i].pc = "creating"
    /\ \E conversation \in CreateOutcomes(i) :
         IF conversation.k = "raise" \/ NoIdReturned(conversation)
         THEN /\ branches' = [branches EXCEPT ![i].pc = "failed"]
              /\ UNCHANGED <<copilot, M365CopilotConversationId>>
         ELSE IF conversation.k = "none"
         THEN \* conversation.id of None raises AttributeError
              /\ branches' = [branches EXCEPT ![i].pc = "failed"]
              /\ UNCHANGED <<copilot, M365CopilotConversationId>>
         ELSE /\ M365CopilotConversationId' = conversation.id
              /\ branches' = [branches EXCEPT ![i] =
                                 [pc |-> "chatting", conversation_id |-> conversation.id]]
              /\ copilot' = [copilot EXCEPT !.created = @ \cup {conversation.id},
                                            !.chatted = @ \cup {conversation.id}]
    /\ UNCHANGED otherVars

\* the chat call ends and with it the branch
ChatReturns(i) ==
    /\ branches[i].pc = "chatting"
    /\ branches' = [branches EXCEPT ![i].pc = "done"]
    /\ UNCHANGED <<M365CopilotConversationId, copilot>>
    /\ UNCHANGED otherVars

\* every branch has ended: _execute_agents returns
ExecuteReturns ==
    /\ copilot.stage = "execute"
    /\ \A i \in DOMAIN branches : Ended(branches[i])
    /\ copilot' = [copilot EXCEPT !.stage = "executed"]
    /\ UNCHANGED <<M365CopilotConversationId, branches>>
    /\ UNCHANGED otherVars

\* the timer expires during execution: the handler's task is cancelled at
\* its await, the branches with it, and line 199 sends the timeout message
CopilotTimerExpires ==
    /\ copilot.stage = "execute"
    /\ copilot' = [copilot EXCEPT !.stage = "aborted"]
    /\ branches' = [i \in DOMAIN branches |-> Cancelled(branches[i])]
    /\ UNCHANGED M365CopilotConversationId
    /\ UNCHANGED otherVars

CopilotNext ==
    \/ \E i \in DOMAIN branches : BranchStarts(i)
    \/ \E i \in DOMAIN branches : ClientReturns(i)
    \/ \E i \in DOMAIN branches : CreateReturns(i)
    \/ \E i \in DOMAIN branches : ChatReturns(i)
    \/ ExecuteReturns
    \/ CopilotTimerExpires

CopilotSpec == CopilotInit /\ [][CopilotNext]_vars

\* ------------------------------------------------------------------------
\* Properties
\* ------------------------------------------------------------------------
\* what kernel.invoke(AnalyzeIntent) gave _analyze_intent in this turn
ClassifyResult == analyze_intent(completion)

Classified == completion # Pending

\* per-item validation as the specification words it: an object with a
\* query and a type that is one of the five enumeration values
ItemValid(item) ==
    /\ item.k = "obj"
    /\ item.type.k = "str"
    /\ Len(item.type.v) = 1
    /\ item.type.v[1] \in IntentType
    /\ item.query # Absent

IntentOfValidItem(item) ==
    [type |-> Member(item.type.v[1]), query |-> item.query,
     confidence |-> IF item.confidence = Absent THEN JNull ELSE item.confidence]

RECURSIVE ValidIntents(_)
ValidIntents(items) ==
    IF items = <<>> THEN <<>>
    ELSE IF ItemValid(Head(items))
         THEN <<IntentOfValidItem(Head(items))>> \o ValidIntents(Tail(items))
         ELSE ValidIntents(Tail(items))

\* the classification call failed, or its text is not decodable JSON
ClassifyFailed(c) ==
    \/ c.k = "raise"
    \/ c.k = "return" /\ c.text.k = "garbage"

\* C1: every turn emits exactly one reply: the user never receives two
\* replies, and a handler that returned has delivered one.
C1_ExactlyOneReply ==
    /\ Len(sent) <= 1
    /\ pc = "done" => Len(sent) = 1

C3_IntentsNeverEmpty ==
    (Classified /\ settings.max_agent_calls >= 1) => Len(intents) >= 1

\* C4: the step that ends a failed classification (the call raised, or its
\* text is not JSON) yields exactly the GeneralKnowledge fallback with the
\* original query, sends nothing and leaves the turn in Execute (or, with an
\* exhausted budget, in Synthesize), not in an abort.
C4_ClassifyFailureFallsBack ==
    [][(~Classified /\ Classified' /\ ClassifyFailed(completion')) =>
          /\ classified' = Fallback(user_message)
          /\ pc' \in {"execute", "synthesize"}
          /\ timer' = "running"
          /\ sending' = NotSending
          /\ sent' = sent]_vars

C4_Witness ==
    /\ Classified
    /\ ClassifyFailed(completion)
    /\ classified = Fallback(user_message)
    /\ pc = "done"
    /\ sent = <<<<"synthesized">>>>

\* C5: a reply that decodes to a non-array, to an empty array or to an
\* array without any valid element makes the pipeline's classification
\* result exactly the GeneralKnowledge fallback with the original query.
C5_DegenerateReplyFallsBack ==
    (Classified /\ ClassifyResult.k = "return" /\ JsonLoads(ClassifyResult.text).ok) =>
        LET data == JsonLoads(ClassifyResult.text).val
        IN  (data.k # "arr" \/ ValidIntents(data.items) = <<>>) =>
                classified = Fallback(user_message)

\* C6: a reply that is an array with at least one valid element makes the
\* intents of the turn exactly its valid elements, in order.
C6_ValidItemsKept ==
    (Classified /\ ClassifyResult.k = "return" /\ JsonLoads(ClassifyResult.text).ok) =>
        LET data == JsonLoads(ClassifyResult.text).val
        IN  (data.k = "arr" /\ ValidIntents(data.items) # <<>>) =>
                classified = ValidIntents(data.items)

\* C7: parse_intent_response and _analyze_intent return a list for every
\* reply text; no exception escapes.
C7_ClassifierNeverRaises ==
    (call.fn \in {"parse_intent_response", "_analyze_intent"} /\ call.out # Pending) =>
        call.out.ok

\* C8: the executed intents are the first max_agent_calls elements of the
\* classified sequence when it is longer than max_agent_calls, else the
\* whole sequence.
C8_PositionalTruncation ==
    Classified =>
        intents = IF Len(classified) > settings.max_agent_calls
                  THEN SubSeq(classified, 1, settings.max_agent_calls)
                  ELSE classified

\* C9: _execute_agent_for_intent returns one AgentResponse with the intent's
\* type and never raises; when the responder raised, the response has
\* success=false, content "Error: <message>" and error=<message>.
C9_ExecutorNeverRaises ==
    (call.fn = "_execute_agent_for_intent" /\ call.out # Pending) =>
        /\ call.out.k = "return"
        /\ call.out.text.intent_type = call.intent.type
        /\ (call.intent.type.k = "enum" /\ Responder(call.intent, call.outcome).k = "raise") =>
              LET msg == Responder(call.intent, call.outcome).msg
              IN  /\ call.out.text.success = FALSE
                  /\ call.out.text.content = <<"Error: ">> \o msg
                  /\ call.out.text.error = JStr(msg)

C9_Witness ==
    /\ call.fn = "_execute_agent_for_intent"
    /\ call.out # Pending
    /\ call.intent.type = Member("M365Calendar")
    /\ call.outcome = Raised("TimeoutError", <<"slow">>)
    /\ call.out.text.error = JStr(<<"slow">>)

\* C10: when the Execute stage has completed, there is one response per
\* surviving intent and response i carries the type of intent i, in both
\* modes and whatever the order in which the branches ended.
C10_OneResponsePerIntent ==
    pc = "synthesize" =>
        /\ Len(responses) = Len(intents)
        /\ \A i \in 1..Len(intents) : responses[i].intent_type = intents[i].type

C10_Witness ==
    /\ pc = "synthesize"
    /\ settings.enable_parallel_execution
    /\ Len(intents) = 2
    /\ intents[1].type # intents[2].type
    /\ completed = <<2, 1>>

\* the response of branch i as the sequential loop computes it: from intent
\* i and the way its own responder call ended, and from nothing else
ResponseOf(i) == _execute_agent_for_intent(intents[i], outcomes[i])

\* the responder of intent i raised
ResponderRaised(i) == Responder(intents[i], outcomes[i]).k = "raise"

\* C11: with responders whose outcome is fixed per intent, the result of
\* the Execute stage is, in parallel mode as in sequential mode, the
\* sequence of the responses of the intents in intent order: the two modes
\* give the same sequence, element for element.
C11_ModesAgree ==
    pc = "synthesize" =>
        /\ Len(outcomes) = Len(intents)
        /\ [i \in 1..Len(responses) |-> Returned(responses[i])]
             = [i \in 1..Len(intents) |-> ResponseOf(i)]

C11_Witness ==
    /\ pc = "synthesize"
    /\ settings.enable_parallel_execution
    /\ Len(intents) = 2
    /\ completed = <<2, 1>>
    /\ ResponderRaised(1)
    /\ outcomes[2] = Returned(<<"answer">>)
    /\ responses[1].content = <<"Error: ", "boom">>
    /\ responses[2].content = <<"answer">>

\* C12: a step in which a branch ends with a raising responder does not
\* abort the turn: the turn stays in Execute or moves to Synthesize, nothing
\* is sent, the timer keeps running, the siblings in flight stay in flight
\* (parallel) or the next one starts (sequential).  When the stage ends
\* after a failure, the failed branch has success=false and every sibling
\* has the response its own responder's outcome gives.
C12_FailureIsolated ==
    [][/\ (pc = "execute" /\ Len(completed') = Len(completed) + 1) =>
            LET i == completed'[Len(completed')]
            IN  Responder(intents[i], outcomes'[i]).k = "raise" =>
                  /\ pc' \in {"execute", "synthesize"}
                  /\ sending' = NotSending
                  /\ sent' = sent
                  /\ timer' = "running"
                  /\ settings.enable_parallel_execution => inflight' = inflight \ {i}
                  /\ (~settings.enable_parallel_execution /\ i < Len(intents)) =>
                         inflight' = {i + 1}
       /\ (pc = "execute" /\ pc' = "synthesize") =>
            \A i \in 1..Len(intents) :
               ResponderRaised(i)' =>
                  /\ Len(responses') = Len(intents)
                  /\ responses'[i].success = FALSE
                  /\ \A j \in 1..Len(intents) \ {i} :
                        Returned(responses'[j]) = ResponseOf(j)'
      ]_vars

C12_Witness ==
    /\ pc = "synthesize"
    /\ Len(intents) = 2
    /\ ResponderRaised(1)
    /\ responses[1].success = FALSE
    /\ outcomes[2] = Returned(<<"answer">>)
    /\ responses[2].success
    /\ responses[2].content = <<"answer">>

\* context.activity.text as line 120 reads it: no text is the empty text
MessageText == IF activity_text.k = "str" THEN activity_text.v ELSE <<>>

\* empty, or nothing but whitespace
Blank(t) == \A i \in 1..Len(t) : t[i] = " "

\* C13: for an empty or whitespace-only message no collaborator is ever
\* invoked, the timer is never started, the only text sent or delivered is
\* the corrective message (so neither the timeout message nor the generic
\* failure message), and a handler that returned delivered exactly it.
C13_BlankRejected ==
    Blank(MessageText) =>
        /\ invoked = NotInvoked
        /\ timer = "off"
        /\ pc \in {"idle", "send", "done", "raised"}
        /\ sending.k \in {"idle", "reject"}
        /\ sending.k = "reject" => sending.text = EMPTY_REPLY
        /\ \A i \in 1..Len(sent) : sent[i] = EMPTY_REPLY
        /\ pc = "done" => sent = <<EMPTY_REPLY>>

C13_Witness ==
    /\ activity_text = JStr(<<" ">>)
    /\ pc = "done"
    /\ sent = <<EMPTY_REPLY>>

C15_SynthesisReturnsText ==
    [][(pc = "synthesize" /\ pc' # "synthesize" /\ timer' # "expired") =>
          /\ sending'.k = "final"
          /\ sending'.text # <<>>]_vars

IsSuccess(r) == r.success

\* the responses of the turn with success=true, in their order
Successful == SelectSeq(responses, IsSuccess)

Tokens(t) == {t[i] : i \in 1..Len(t)}

\* C16: while Synthesize is pending, what it was given is one entry per
\* success=true response, in the order of the responses, each with exactly
\* the fields agent, intent_type and content of its response; no piece of
\* the content or of the error of a failed response is in any entry.
C16_SynthesisInputFiltered ==
    pc = "synthesize" =>
        /\ Len(formatted_responses) = Len(Successful)
        /\ \A n \in 1..Len(formatted_responses) :
              /\ DOMAIN formatted_responses[n] = {"agent", "intent_type", "content"}
              /\ formatted_responses[n].agent = Successful[n].agent
              /\ formatted_responses[n].intent_type = Successful[n].intent_type.name
              /\ formatted_responses[n].content = Successful[n].content
        /\ \A i \in 1..Len(responses) :
              ~responses[i].success =>
                 \A n \in 1..Len(formatted_responses) :
                    /\ Tokens(formatted_responses[n].content) \cap Tokens(responses[i].content) = {}
                    /\ responses[i].error.k = "str" =>
                          Tokens(formatted_responses[n].content) \cap Tokens(responses[i].error.v) = {}

C16_Witness ==
    /\ pc = "synthesize"
    /\ Len(responses) = 2
    /\ ~responses[1].success
    /\ responses[1].error = JStr(<<"boom">>)
    /\ responses[2].success
    /\ formatted_responses =
          <<[agent |-> "azure_openai", intent_type |-> "GeneralKnowledge", content |-> <<"answer">>]>>

\* the messages of the errors raised inside the call of a responder
ErrorTexts(o) ==
    IF o.k # "raise" THEN {}
    ELSE {o.msg} \cup (IF o.exc = "AttributeError" /\ o.fallback.k = "raise"
                       THEN {o.fallback.msg} ELSE {})

C18_ErrorIffFailed ==
    (call.fn = "_execute_agent_for_intent" /\ call.out # Pending /\ call.out.k = "return") =>
        (call.out.text.success = FALSE <=> call.out.text.error # JNull)

\* C19: when an error raised by a collaborator has reached the except
\* clauses of on_message_activity (the timer did not expire), the reply
\* being sent is the generic failure message.
C19_EscapedErrorGenericReply ==
    (sending.k \in {"timeout", "generic"} /\ timer = "exited") =>
        sending.text = GENERIC_REPLY

\* the texts the handler sends without running the pipeline to its end
FixedReplies == {EMPTY_REPLY, TOO_LONG_REPLY, TIMEOUT_REPLY, GENERIC_REPLY}

\* C20: the classifier is called at most once, only for a message that
\* passed validation, and exactly once in every turn that entered the timed
\* block past plugin setup; a responder is called only when classification
\* has returned and the intents have been limited, at most once per intent;
\* the synthesizer is called at most once, only when every intent's
\* responder was called and no branch is in flight, and while it is pending
\* every branch has its outcome; a final reply is sent only when the
\* synthesizer was called and has returned.
C20_StageOrder ==
    /\ invoked.classify <= 1
    /\ invoked.synthesize <= 1
    /\ invoked.classify = 1 =>
          /\ pc # "idle"
          /\ ~Blank(user_message)
          /\ Len(user_message) <= 4000
    /\ timer = "running" => invoked.classify = 1
    /\ ~Classified =>
          /\ invoked.responders = <<>>
          /\ invoked.synthesize = 0
          /\ inflight = {}
    /\ (invoked.responders # <<>> \/ inflight # {}) =>
          /\ invoked.classify = 1
          /\ Classified
          /\ Len(invoked.responders) = Len(intents)
          /\ \A i \in 1..Len(intents) : invoked.responders[i] <= 1
          /\ \A i \in inflight : invoked.responders[i] = 1
    /\ pc = "execute" => invoked.synthesize = 0
    /\ invoked.synthesize = 1 =>
          /\ Classified
          /\ inflight = {}
          /\ Len(invoked.responders) = Len(intents)
          /\ \A i \in 1..Len(intents) : invoked.responders[i] = 1
          /\ pc = "synthesize" =>
                /\ Len(outcomes) = Len(intents)
                /\ \A i \in 1..Len(intents) : outcomes[i] # Pending
    /\ sending.k = "final" => (invoked.synthesize = 1 /\ pc = "send")
    /\ \A n \in 1..Len(sent) :
          sent[n] \notin FixedReplies =>
             (invoked.synthesize = 1 /\ pc \in {"send", "done", "raised"})

C20_Witness ==
    /\ pc = "done"
    /\ ~settings.enable_parallel_execution
    /\ invoked = [classify |-> 1, responders |-> <<1, 1>>, synthesize |-> 1]
    /\ sent = <<<<"synthesized">>>>

\* C21: in sequential mode at most one responder call is in flight; while
\* the call for intent i is in flight, the calls for the intents before i
\* have ended, in intent order, and no call for an intent after i has
\* started.
C21_SequentialOneAtATime ==
    ~settings.enable_parallel_execution =>
        /\ Cardinality(inflight) <= 1
        /\ pc = "execute" => inflight # {}
        /\ \A i \in inflight :
              /\ completed = [j \in 1..(i - 1) |-> j]
              /\ \A j \in 1..(i - 1) : outcomes[j] # Pending /\ invoked.responders[j] = 1
              /\ invoked.responders[i] = 1
              /\ outcomes[i] = Pending
              /\ \A j \in (i + 1)..Len(intents) : invoked.responders[j] = 0

C21_Witness ==
    /\ ~settings.enable_parallel_execution
    /\ pc = "execute"
    /\ Len(intents) = 2
    /\ inflight = {2}
    /\ completed = <<1>>
    /\ outcomes[1] = Returned(<<"answer">>)

\* the connector operation the specification gives each M365 type
OperationOf(name) ==
    CASE name = "M365Email" -> "QueryEmails"
      [] name = "M365Calendar" -> "QueryCalendar"
      [] name = "M365Files" -> "QueryFiles"
      [] name = "M365People" -> "QueryPeople"

\* C22: what _execute_agent_for_intent invokes depends on the intent's type
\* only: each M365 type goes to its own operation of the M365 connector,
\* GeneralKnowledge to the general-knowledge responder; the M365 connector
\* is invoked exactly when is_m365_intent holds; for any other type nothing
\* is invoked and the response is failed, with the fixed content.
C22_DispatchByType ==
    (call.fn = "_execute_agent_for_intent" /\ call.out # Pending) =>
        LET t == call.intent.type
        IN  /\ (t.k = "enum" /\ t.name \in M365Types) =>
                  call.invokes = [plugin |-> "M365CopilotPlugin", function |-> OperationOf(t.name)]
            /\ (t.k = "enum" /\ t.name = "GeneralKnowledge") =>
                  call.invokes = [plugin |-> "AzureOpenAIPlugin", function |-> "AnswerGeneralQuestion"]
            /\ (call.invokes.plugin = "M365CopilotPlugin") <=> is_m365_intent(call.intent)
            /\ (call.out.k = "return" /\ call.out.text.success) =>
                  (call.out.text.agent = "m365_copilot" <=> is_m365_intent(call.intent))
            /\ (t.k # "enum") =>
                  /\ call.invokes.plugin = "none"
                  /\ call.out.k = "return"
                  /\ call.out.text.success = FALSE
                  /\ call.out.text.content = <<"I'm not sure how to handle that request.">>

C22_Witness ==
    /\ call.fn = "_execute_agent_for_intent"
    /\ call.intent.type = Member("M365Calendar")
    /\ call.out # Pending
    /\ call.invokes.function = "QueryCalendar"
    /\ call.out.text.agent = "m365_copilot"

\* C23: the parallel branch of _execute_agents, given an executor that
\* raises for some intents, returns one entry per intent: at the index of a
\* raising execution a failed response of that intent with the content
\* "Error: <message>", at every other index the response the execution
\* returned.
C23_ParallelGuard ==
    (call.fn = "_execute_agents" /\ call.out # Pending) =>
        /\ call.out.k = "return"
        /\ Len(call.out.text) = Len(call.intents)
        /\ \A i \in 1..Len(call.intents) :
              IF call.results[i].k = "raise"
              THEN \E e \in {JNull, JStr(call.results[i].msg)} :
                      call.out.text[i] =
                         [agent |-> call.intents[i].type.name,
                          intent_type |-> call.intents[i].type,
                          content |-> <<"Error: ">> \o call.results[i].msg,
                          success |-> FALSE, error |-> e]
              ELSE Returned(call.out.text[i]) = call.results[i]

C23_Witness ==
    /\ call.fn = "_execute_agents"
    /\ call.out # Pending
    /\ Len(call.intents) = 3
    /\ call.results[2].k = "raise"
    /\ call.out.text[1].success
    /\ call.out.text[2].success = FALSE
    /\ call.out.text[3].success

\* C24: every intent that classification gives the turn has a type that is
\* a member of IntentType.
C24_TypeAlwaysMember ==
    \A i \in 1..Len(classified) : classified[i].type.k = "enum"

\* C25: when the completion call of the synthesis prompt gives an empty or
\* null result, _synthesize_response returns exactly the literal
\* "I couldn't generate a response.".
C25_SynthesisFallbackLiteral ==
    (call.fn = "_synthesize_response" /\ call.out # Pending /\ call.completion.k = "none") =>
        call.out = Returned(<<"I couldn't generate a response.">>)

\* C26: for an M365 intent, an empty or null result of the Copilot call
\* gives the response of agent "m365_copilot" with success=true and content
\* "No response received."; a text is the content as it is, with
\* success=true; only a raised error gives success=false.
C26_M365EmptyResult ==
    (call.fn = "_execute_agent_for_intent" /\ call.out # Pending
        /\ is_m365_intent(call.intent)) =>
        /\ call.outcome.k = "none" =>
              call.out = Returned(AgentResponse("m365_copilot", call.intent.type,
                                                <<"No response received.">>, TRUE, JNull))
        /\ call.outcome.k = "return" =>
              call.out = Returned(AgentResponse("m365_copilot", call.intent.type,
                                                call.outcome.text, TRUE, JNull))
        /\ (call.out.k = "return" /\ call.out.text.success = FALSE) => call.outcome.k = "raise"

\* C27: for a GeneralKnowledge intent, an empty result of the completion
\* call gives a response with success=true and content exactly
\* "I'm unable to answer that question at the moment.".
C27_GeneralKnowledgeEmptyResult ==
    (call.fn = "_execute_agent_for_intent" /\ call.out # Pending
        /\ call.intent.type = Member(GENERAL_KNOWLEDGE) /\ call.outcome.k = "none") =>
        call.out = Returned(AgentResponse("azure_openai", Member(GENERAL_KNOWLEDGE),
                                          <<"I'm unable to answer that question at the moment.">>,
                                          TRUE, JNull))

C27_Witness ==
    /\ call.fn = "_execute_agent_for_intent"
    /\ call.out # Pending
    /\ call.intent.type = Member(GENERAL_KNOWLEDGE)
    /\ call.outcome = ReturnedNone
    /\ call.out.text.success
    /\ call.out.text.content = <<"I'm unable to answer that question at the moment.">>

\* the phrase the specification gives an error text, by the first status it
\* encodes in the order 401, 403, 404, 500; <<>> when it encodes none
PhraseFor(msg) ==
    IF Contains(msg, "401") \/ Contains(msg, "unauthorized")
    THEN <<"Your session has expired. Please log in again.">>
    ELSE IF Contains(msg, "403") \/ Contains(msg, "forbidden")
    THEN <<"You don't have access to Microsoft 365 Copilot. Please contact your administrator to verify your license.">>
    ELSE IF Contains(msg, "404") \/ Contains(msg, "not found")
    THEN <<"The Copilot service is not available. Please try again later.">>
    ELSE IF Contains(msg, "500") \/ Contains(msg, "server error")
    THEN <<"The Copilot service encountered an error. Please try again later.">>
    ELSE <<>>

\* C28: for an M365 intent whose Copilot call raises, an error text that
\* encodes a status gives the success=true response with the phrase of the
\* first status in the order 401, 403, 404, 500; every other error gives a
\* success=false response carrying the error.
C28_ErrorsSplitInTwo ==
    (call.fn = "_execute_agent_for_intent" /\ call.out # Pending
        /\ is_m365_intent(call.intent) /\ call.outcome.k = "raise") =>
        IF PhraseFor(call.outcome.msg) # <<>>
        THEN call.out = Returned(AgentResponse("m365_copilot", call.intent.type,
                                               PhraseFor(call.outcome.msg), TRUE, JNull))
        ELSE /\ call.out.k = "return"
             /\ call.out.text.success = FALSE
             /\ call.out.text.error = JStr(call.outcome.msg)

Fences == {PLAIN_FENCE, JSON_FENCE}

\* a fenced block of the reply: an opening fence at i and the next fence
\* after it at j
IsBlock(reply, i, j) ==
    /\ i \in 1..Len(reply) /\ j \in (i + 1)..Len(reply)
    /\ reply[i] \in Fences /\ reply[j] \in Fences
    /\ \A n \in (i + 1)..(j - 1) : reply[n] \notin Fences

\* the blocks whose opening fence has a tag in Tags
BlocksOf(reply, Tags) ==
    {b \in (1..Len(reply)) \X (1..Len(reply)) :
        IsBlock(reply, b[1], b[2]) /\ reply[b[1]] \in Tags}

\* the first of a non-empty set of blocks
FirstBlock(B) == CHOOSE b \in B : \A c \in B : b[1] <= c[1]

Contents(reply, b) == Strip(SubSeq(reply, b[1] + 1, b[2] - 1))

\* C29: the result of _extract_json is the contents of the reply's first
\* block tagged as JSON if it has one, else the contents of its first
\* fenced block if it has one, else the reply stripped; a fence-free reply
\* without surrounding whitespace is returned unchanged.
C29_UnwrapPriority ==
    (call.fn = "_extract_json" /\ call.out # Pending) =>
        LET r == call.response
            out == call.out.text
        IN  /\ IF BlocksOf(r, {JSON_FENCE}) # {}
               THEN out = Contents(r, FirstBlock(BlocksOf(r, {JSON_FENCE})))
               ELSE IF BlocksOf(r, Fences) # {}
               THEN out = Contents(r, FirstBlock(BlocksOf(r, Fences)))
               ELSE out = Strip(r)
            /\ (BlocksOf(r, Fences) = {} /\ FirstIn(r, Fences, 1) = 0
                  /\ (r = <<>> \/ (r[1] # " " /\ r[Len(r)] # " "))) => out = r

\* the objects a kernel call works with
ObjectsOf(uses) ==
    {uses.kernel, uses.plugin, uses.agent_context, uses.context, uses.state,
     uses.user_auth, uses.logger} \cup uses.services

\* the objects calls of both turns have worked with
SharedObjects ==
    UNION {ObjectsOf(a.uses) \cap ObjectsOf(b.uses) :
             a \in {x \in invocations : x.turn = 1}, b \in {x \in invocations : x.turn = 2}}

\* every call of a turn works with the kernel, plugin instance, agent
\* context, turn context and conversation state of that turn
OwnBindings ==
    \A a \in invocations :
        /\ a.uses.kernel = turns[a.turn].kernel
        /\ a.uses.plugin = <<a.plugin_name, a.turn>>
        /\ a.uses.agent_context = turns[a.turn].agent_context
        /\ a.uses.context = TurnContext(a.turn)
        /\ a.uses.state = TurnState(a.turn)

\* C30 as stated: each kernel call of a turn works with the kernel, plugin
\* instance, context and conversation state of its own turn, and the one
\* object calls of two concurrent turns have in common is the completion
\* service.
C30_OnlyServiceShared ==
    /\ OwnBindings
    /\ SharedObjects \subseteq {SERVICE}

\* C30 amended: each kernel call of a turn works with the kernel, plugin
\* instance, context and conversation state of its own turn; what calls of
\* two concurrent turns have in common are the application's objects: the
\* completion service, the Authorization and the logger.
C30_TurnBindingsIsolated ==
    /\ OwnBindings
    /\ SharedObjects \subseteq {SERVICE, USER_AUTH, LOGGER}

\* the responders of both turns have run while neither turn had ended
C30_Witness ==
    /\ \A t \in Turns : turns[t].pc \in {"execute", "synthesize"}
    /\ \A t \in Turns : \E a \in invocations :
           a.turn = t /\ a.plugin_name \in {"M365CopilotPlugin", "AzureOpenAIPlugin"}
    /\ SharedObjects = {SERVICE, USER_AUTH, LOGGER}

\* the stored state of a conversation: whether it has an entry, and its items
StoredState(c) ==
    IF c \in DOMAIN _storage
    THEN [present |-> TRUE, items |-> dicts[_storage[c]]]
    ELSE [present |-> FALSE, items |-> EmptyItems]

\* the keys a finished update_state or set_value call has written
WrittenKeys(t) ==
    IF callers[t].call.op = "set_value" THEN {callers[t].call.key}
    ELSE {k \in Keys : dicts[ArgOf(t)][k] # NoVal}

WrittenValue(t, k) ==
    IF callers[t].call.op = "set_value" THEN callers[t].call.value ELSE dicts[ArgOf(t)][k]

\* two finished update_state or set_value calls on one conversation that
\* wrote different keys
WroteApart(a, b) ==
    /\ a # b
    /\ callers[a].pc = "done" /\ callers[b].pc = "done"
    /\ callers[a].call.op \in {"update_state", "set_value"}
    /\ callers[b].call.op \in {"update_state", "set_value"}
    /\ callers[a].call.conv = callers[b].call.conv
    /\ WrittenKeys(a) \cap WrittenKeys(b) = {}

\* C31: the bodies of the state manager's calls exclude one another: at
\* most one caller is inside a body and it holds the lock; and when two
\* update_state or set_value calls on one conversation wrote different keys,
\* the stored state has what both wrote.
C31_CallsSerialized ==
    /\ \A a, b \in DOMAIN callers :
         (callers[a].pc \in {"locked", "tested"} /\ callers[b].pc \in {"locked", "tested"})
             => (a = b /\ _lock = a)
    /\ \A a, b \in DOMAIN callers :
         WroteApart(a, b) =>
             \A k \in WrittenKeys(a) :
                 StoredState(callers[a].call.conv) =
                     [present |-> TRUE,
                      items |-> [StoredState(callers[a].call.conv).items
                                    EXCEPT ![k] = WrittenValue(a, k)]]

\* two callers have written different keys of a conversation that had no
\* entry, and both keys are stored
C31_Witness ==
    /\ WroteApart("t1", "t2")
    /\ callers["t1"].missing /\ ~callers["t2"].missing
    /\ callers["t1"].call.op = "update_state" /\ callers["t2"].call.op = "set_value"
    /\ WrittenKeys("t1") = {"k1"} /\ WrittenKeys("t2") = {"k2"}
    /\ StoredState(callers["t1"].call.conv).items = [k1 |-> "v1", k2 |-> "v2"]

\* C32: a step of a call on one conversation leaves the stored state of
\* every other conversation as it was; get_state and get_value leave the
\* storage as it was, and on a conversation without an entry they return
\* the empty state and the default.
C32_ConversationsIndependent ==
    [][\A t \in DOMAIN callers :
         callers'[t] # callers[t] =>
            /\ \A c \in ConvIds \ {callers[t].call.conv} : StoredState(c)' = StoredState(c)
            /\ callers[t].call.op \in {"get_state", "get_value"} =>
                  /\ _storage' = _storage
                  /\ \A c \in ConvIds : StoredState(c)' = StoredState(c)
                  /\ (callers'[t].pc = "done" /\ callers[t].call.conv \notin DOMAIN _storage) =>
                        IF callers[t].call.op = "get_state"
                        THEN /\ callers'[t].ret_dict \notin DOMAIN dicts
                             /\ dicts'[callers'[t].ret_dict] = EmptyItems
                        ELSE callers'[t].ret_value = DEFAULT]_vars

\* one caller has cleared conversation A and the other has then read the
\* state of A, which has no entry, while B still has its entry
C32_Witness ==
    /\ callers["t1"].call = [op |-> "clear_state", conv |-> "A", key |-> "k1", value |-> NoVal]
    /\ callers["t1"].pc = "done"
    /\ callers["t2"].call.op = "get_state" /\ callers["t2"].call.conv = "A"
    /\ callers["t2"].pc = "done"
    /\ dicts[callers["t2"].ret_dict] = EmptyItems
    /\ StoredState("A").present = FALSE
    /\ StoredState("B") = [present |-> TRUE, items |-> [k1 |-> "v1", k2 |-> NoVal]]

\* C39: when a caller adds, replaces or removes a key of a dictionary it got
\* from get_state or passed to set_state, the stored state of every
\* conversation stays as it was.
C39_NoAliasing ==
    [][\A t \in DOMAIN callers :
         (callers[t].pc = "done" /\ callers'[t].pc = "mutated") =>
             \A c \in ConvIds : StoredState(c)' = StoredState(c)]_vars

\* one caller has changed the dictionary it passed to set_state, the other
\* the dictionary it got from get_state, and the stored state of the
\* conversation differs from both
C39_Witness ==
    /\ callers["t1"].call.op = "set_state" /\ callers["t1"].call.conv = "A"
    /\ callers["t2"].call.op = "get_state" /\ callers["t2"].call.conv = "A"
    /\ callers["t1"].pc = "mutated" /\ callers["t2"].pc = "mutated"
    /\ StoredState("A").present
    /\ dicts[ArgOf("t1")] # StoredState("A").items
    /\ dicts[callers["t2"].ret_dict] # StoredState("A").items
    /\ dicts[callers["t2"].ret_dict] # dicts[ArgOf("t1")]

\* C34: the fixed timeout message is sent only in a turn whose timer has
\* expired.
C34_TimeoutMessageOnlyOnExpiry ==
    (sending.text = TIMEOUT_REPLY \/ \E i \in 1..Len(sent) : sent[i] = TIMEOUT_REPLY) =>
        timer = "expired"

\* C37: in a turn whose synthesizer has been called, the responder of every
\* surviving intent has been called exactly once, in both modes and whether
\* or not a call failed.
C37_EachResponderOnce ==
    invoked.synthesize >= 1 =>
        /\ Len(invoked.responders) = Len(intents)
        /\ \A i \in 1..Len(intents) : invoked.responders[i] = 1

\* synthesis is pending in a sequential turn of two intents whose first
\* responder failed
C37_Witness ==
    /\ pc = "synthesize"
    /\ ~settings.enable_parallel_execution
    /\ Len(intents) = 2
    /\ outcomes[1] = Raised("Exception", <<"boom">>)
    /\ invoked.responders = <<1, 1>>

\* the handler has left the pipeline: it has returned or raised, or it is
\* sending a rejection, the timeout message or the failure message
Terminal ==
    \/ pc \in {"done", "raised"}
    \/ pc = "send" /\ sending.k # "final"

\* C35: a turn that is classifying, executing or synthesizing eventually
\* leaves the pipeline, whether or not any collaborator ever returns.
C35_TurnTerminates ==
    (pc \in {"classify", "execute", "synthesize"}) ~> Terminal

\* the timer has expired while two responder calls were pending and the
\* timeout message is being sent
C35_Witness ==
    /\ expiredAt = "execute"
    /\ Len(intents) = 2
    /\ invoked.responders = <<1, 1>>
    /\ invoked.synthesize = 0
    /\ pc = "send"
    /\ sending = Send("timeout", TIMEOUT_REPLY)
    /\ timer = "expired"

\* C33: in a turn that found no conversation ID stored, at most one
\* conversation is created, every chat call uses one and the same
\* conversation ID, and a stored ID is never replaced.
C33_OneConversationPerTurn ==
    [][(copilot.stage # "none" /\ copilot.stored_at_start = NO_ID) =>
          /\ Cardinality(copilot'.created) <= 1
          /\ Cardinality(copilot'.chatted) <= 1
          /\ ~Unset(M365CopilotConversationId) =>
                M365CopilotConversationId' = M365CopilotConversationId]_vars

\* C36: once the timer has expired during execution and the turn is
\* aborted, no branch takes a step: no connector call is made and the
\* stored conversation ID is not written.
C36_AbortCancelsBranches ==
    [][copilot.stage = "aborted" =>
          /\ branches' = branches
          /\ copilot' = copilot
          /\ M365CopilotConversationId' = M365CopilotConversationId]_vars

\* a parallel turn is aborted while its first branch was posting the chat
\* message to the conversation it had created and its second branch had
\* not got as far
C36_Witness ==
    /\ copilot.stage = "aborted"
    /\ copilot.parallel
    /\ DOMAIN branches = {1, 2}
    /\ branches[1] = [pc |-> "cancelled", conversation_id |-> "c1"]
    /\ branches[2] = [pc |-> "cancelled", conversation_id |-> NO_ID]
    /\ M365CopilotConversationId = "c1"

\* C38: the stored conversation ID changes only in the step in which
\* conversations.post has returned a conversation with a non-empty ID, and
\* to that ID; a call whose client or conversation creation fails leaves it
\* as it was; a call that read a stored ID creates no conversation and
\* leaves the stored ID as it was.
C38_IdWrittenAfterCreation ==
    [][/\ M365CopilotConversationId' # M365CopilotConversationId =>
            \E i \in DOMAIN branches :
                /\ branches[i].pc = "creating" /\ branches'[i].pc = "chatting"
                /\ ~Unset(M365CopilotConversationId')
                /\ M365CopilotConversationId' = NewId(i)
                /\ copilot'.created = copilot.created \cup {NewId(i)}
       /\ \A i \in DOMAIN branches :
            branches'[i] # branches[i] =>
               /\ branches'[i].pc = "failed" =>
                     /\ M365CopilotConversationId' = M365CopilotConversationId
                     /\ copilot'.created = copilot.created
               /\ (branches[i].pc \in {"client", "chatting"}
                     /\ ~Unset(branches[i].conversation_id)) =>
                     /\ branches'[i].pc # "creating"
                     /\ M365CopilotConversationId' = M365CopilotConversationId
                     /\ copilot'.created = copilot.created]_vars

\* in a sequential turn the first call failed and left no ID stored, and
\* the second call has created a conversation and stored its ID
C38_Witness ==
    /\ copilot.stage = "execute"
    /\ ~copilot.parallel
    /\ copilot.stored_at_start = NO_ID
    /\ DOMAIN branches = {1, 2}
    /\ branches[1] = [pc |-> "failed", conversation_id |-> NO_ID]
    /\ branches[2] = [pc |-> "chatting", conversation_id |-> "c2"]
    /\ M365CopilotConversationId = "c2"
    /\ copilot.created = {"c2"}

====
